---- MODULE Spec2Model ----
(***************************************************************************)
(* Minni: the data-access layer behind the minni_* tools.                  *)
(*                                                                         *)
(* The store is the SQLite file created by initializeDatabase: the tables  *)
(* projects, memories, memory_tags, memory_relations, settings and the     *)
(* singleton row of global_context.  Every tool handler is one action,     *)
(* except that a handler which reaches context.ask inside guardedAction    *)
(* is suspended there (variable call) and finished by AskAccept or         *)
(* AskReject.  The last tool response is kept in resp as a sequence of     *)
(* lines; a line records the entity it is about and the title and content  *)
(* text it prints.                                                         *)
(***************************************************************************)
EXTENDS Integers, Sequences, FiniteSets, TLC

VARIABLES
    projects,         \* table projects: id -> row
    memories,         \* table memories: id -> row
    memoryTags,       \* memory_tags joined with tags: set of <<memory id, tag name>>
    memoryRelations,  \* table memory_relations: set of <<memory_id, related_id>>
    settings,         \* table settings: key -> value
    globalContext,    \* the row id = 1 of global_context
    nextProjectId,    \* AUTOINCREMENT counter of projects
    nextMemoryId,     \* AUTOINCREMENT counter of memories
    clock,            \* the wall clock read by new Date()
    call,             \* the guardedAction call suspended in context.ask, if any
    asked,            \* confirmations guardedAction requested in the latest tool call
    ran,              \* whether guardedAction invoked the executor in the latest tool call
    resp,             \* the last tool response
    studioOps,        \* direct database edits made so far (Minni Studio)
    tasks,            \* table tasks: id -> row
    nextTaskId,       \* AUTOINCREMENT counter of tasks
    legacy,           \* the v1 columns of global_context and projects, if the file has them
    boot,             \* outcome of the latest initializeDatabase run
    pages,            \* the canvas pages the viewer server holds, oldest first
    nextPageId        \* stands for crypto.randomUUID(): ids never repeat

vars == <<projects, memories, memoryTags, memoryRelations, settings, globalContext,
          nextProjectId, nextMemoryId, clock, call, asked, ran, resp, studioOps,
          tasks, nextTaskId, legacy, boot, pages, nextPageId>>

store == <<projects, memories, memoryTags, memoryRelations, settings, globalContext>>

\* What the memory and project tools never touch.
others == <<tasks, nextTaskId, legacy, boot, pages, nextPageId>>

-----------------------------------------------------------------------------
(* Bounds *)

\* Tool writes explored; every write reads the clock once.
MaxClock == 2

\* Direct database edits explored.
MaxStudioOps == 2

\* Plugin starts explored on one database file.
MaxRuns == 2

\* Tasks created.
MaxTasks == 3

\* Canvas pages pushed beyond a full canvas.
MaxPushes == 3

\* Canvas pages deleted one by one behind the oldest page held.
MaxLost == 3

-----------------------------------------------------------------------------
(* Values *)

\* An optional tool argument that is absent: undefined and "" are both falsy.
NoArg == ""

\* SQL NULL in an integer column; JavaScript treats 0 and null alike in !x.
NoId == 0

\* A file that never had the v1 columns: the SELECT of them fails.
NoLegacy == [present |-> FALSE, identity |-> "", preferences |-> "",
             contextSummary |-> "", projectSummaries |-> <<>>]

\* initializeDatabase returned; the plugin goes on to register the tools.
\* foreignKeys says whether the connection drizzle(dbPath) opened enforces the
\* declared REFERENCES clauses; the memory tools are explored over one that does.
Booted == [status |-> "ok", fault |-> "none", runs |-> 1, foreignKeys |-> TRUE]

PERMISSION == <<"open", "guarded", "read_only", "locked">>

ActionType == {"read", "update", "delete"}

Range(s) == {s[i] : i \in 1..Len(s)}

MEMORY_TYPE ==
    <<"skill", "pattern", "anti_pattern", "decision", "insight", "comparison", "note",
      "link", "article", "video", "documentation", "identity", "context", "scratchpad">>

MEMORY_STATUS == <<"draft", "experimental", "proven", "battle_tested", "deprecated">>

WRITABLE_PROJECT_STATUS == <<"active", "paused", "completed", "archived">>

-----------------------------------------------------------------------------
(* Text *)

Char(s, i) == SubSeq(s, i, i)

\* One character of String.prototype.toLowerCase on ASCII text.
LowerChar(c) ==
    CASE c = "A" -> "a" [] c = "B" -> "b" [] c = "C" -> "c" [] c = "D" -> "d"
      [] c = "E" -> "e" [] c = "F" -> "f" [] c = "G" -> "g" [] c = "H" -> "h"
      [] c = "I" -> "i" [] c = "J" -> "j" [] c = "K" -> "k" [] c = "L" -> "l"
      [] c = "M" -> "m" [] c = "N" -> "n" [] c = "O" -> "o" [] c = "P" -> "p"
      [] c = "Q" -> "q" [] c = "R" -> "r" [] c = "S" -> "s" [] c = "T" -> "t"
      [] c = "U" -> "u" [] c = "V" -> "v" [] c = "W" -> "w" [] c = "X" -> "x"
      [] c = "Y" -> "y" [] c = "Z" -> "z" [] OTHER -> c

RECURSIVE ToLower(_)
ToLower(s) ==
    IF s = "" THEN "" ELSE LowerChar(Char(s, 1)) \o ToLower(SubSeq(s, 2, Len(s)))

\* s contains q as a substring.
Contains(s, q) ==
    \E i \in 1..(Len(s) - Len(q) + 1) : SubSeq(s, i, i + Len(q) - 1) = q

\* text LIKE '%' || escaped(query) || '%' ESCAPE '\': the query's % and _ are
\* escaped, so the pattern has no wildcard but the two ends; LIKE folds ASCII case.
Like(text, query) == Contains(ToLower(text), ToLower(query))

\* String.prototype.trim for the space character.
RECURSIVE Trim(_)
Trim(s) ==
    IF Len(s) = 0 THEN s
    ELSE IF Char(s, 1) = " " THEN Trim(SubSeq(s, 2, Len(s)))
    ELSE IF Char(s, Len(s)) = " " THEN Trim(SubSeq(s, 1, Len(s) - 1))
    ELSE s

\* saveTags: a tag is stored lower-cased and trimmed.
NormalizeTag(name) == Trim(ToLower(name))

\* split(","): the pieces of s, `piece` being the one under construction.
RECURSIVE SplitComma(_, _)
SplitComma(s, piece) ==
    IF Len(s) = 0 THEN {piece}
    ELSE IF Char(s, 1) = "," THEN {piece} \cup SplitComma(SubSeq(s, 2, Len(s)), "")
    ELSE SplitComma(SubSeq(s, 2, Len(s)), piece \o Char(s, 1))

\* args.tags.split(",").map(trim).filter(Boolean)
TagNames(tagsArg) ==
    IF tagsArg = NoArg THEN {} ELSE {Trim(t) : t \in SplitComma(tagsArg, "")} \ {""}

-----------------------------------------------------------------------------
(* Rows and the fresh database *)

ProjectRow(name, status, permission, defaultMemoryPermission, now) ==
    [name |-> name, status |-> status, permission |-> permission,
     defaultMemoryPermission |-> defaultMemoryPermission, updatedAt |-> now]

MemoryRow(projectId, type, title, content, status, permission, now) ==
    [projectId |-> projectId, type |-> type, title |-> title, content |-> content,
     status |-> status, permission |-> permission, updatedAt |-> now]

\* Stand-ins for the two seeded skills' titles and bodies (SKILL_TECHNICAL, SKILL_HUMAN).
SeedTechnicalTitle == "Tech"
SeedHumanTitle == "Human"
SKILL_TECHNICAL == "st"
SKILL_HUMAN == "sh"

\* seedSettings: the defaults inserted with INSERT OR IGNORE.
SettingDefaults ==
    [default_identity |-> "null",
     force_identity_on_hud |-> "false",
     ask_before_identity_injection |-> "true",
     default_memory_permission |-> "guarded",
     auto_create_tasks |-> "false",
     search_default_limit |-> "20",
     activate_identity_on_save |-> "false",
     dangerously_skip_memory_permission |-> "false"]

\* seedSkills: two read_only skills, created at the clock's first reading.
SeedMemories ==
    (1 :> MemoryRow(NoId, "skill", SeedTechnicalTitle, SKILL_TECHNICAL, "proven", "read_only", 0))
    @@ (2 :> MemoryRow(NoId, "skill", SeedHumanTitle, SKILL_HUMAN, "proven", "read_only", 0))

SeedMemoryTags ==
    {<<1, t>> : t \in {"system", "core", "minni", "projects", "description", "technical"}}
    \cup {<<2, t>> : t \in {"system", "core", "minni", "projects", "description", "human"}}

\* getSetting: the value, or null (here "") when the key has no row.
GetSetting(key) == IF key \in DOMAIN settings THEN settings[key] ELSE ""

-----------------------------------------------------------------------------
(* Responses *)

\* One printed line: the entity it is about, the title and content text it
\* carries, and whether that text was read from the store (stored) or echoes
\* the caller's own arguments.
Line(tag, entity, id, title, content, stored) ==
    [tag |-> tag, entity |-> entity, id |-> id, title |-> title, content |-> content,
     stored |-> stored]

Response(tool, kind, lines) == [tool |-> tool, kind |-> kind, lines |-> lines]

NoResponse == Response("", "", <<>>)

\* The latest tool call has not entered guardedAction.
NoCall == [entered |-> FALSE, active |-> FALSE]

\* Rows of a table without the row id.
Without(table, id) == [i \in DOMAIN table \ {id} |-> table[i]]

-----------------------------------------------------------------------------
(* Executors: the closures the handlers hand to guardedAction *)

\* handleUpdate's executor (memory).  e.mem is the row the handler read.
\* What each executor returns: a function of its arguments and of the row the
\* handler loaded before it entered guardedAction.
ExecResponse(e) ==
    CASE e.kind = "memory.update" ->
           Response("minni_memory.update", "Updated",
                    <<Line("Updated", "memory", e.args.id,
                           IF e.args.title # NoArg THEN e.args.title ELSE e.mem.title,
                           "", e.args.title = NoArg)>>)
      [] e.kind = "memory.delete" ->
           Response("minni_memory.delete", "Deleted",
                    <<Line("Deleted", "memory", e.args.id, e.mem.title, "", TRUE)>>)
      [] e.kind = "project.update" ->
           Response("minni_project.update", "Project updated",
                    <<Line("Project updated", "project", e.args.id, e.args.name, "", FALSE)>>)
      [] e.kind = "project.delete" ->
           Response("minni_project.delete", "Project soft-deleted",
                    <<Line("Project soft-deleted", "project", e.args.id, e.args.name, "",
                           FALSE)>>)
      [] e.kind = "read" ->
           Response("guardedAction.read", "Read",
                    <<Line("Read", "memory", e.args.id, e.mem.title, e.mem.content, TRUE)>>)

\* An update that also opens the memory it writes.
ExecMemoryUpdateReopen(e) ==
    /\ clock < MaxClock
    /\ clock' = clock + 1
    /\ memories' =
         IF e.args.id \in DOMAIN memories
         THEN [memories EXCEPT ![e.args.id] =
                 [@ EXCEPT !.title = IF e.args.title # NoArg THEN e.args.title ELSE @,
                           !.permission = "open",
                           !.updatedAt = clock + 1]]
         ELSE memories
    /\ resp' = ExecResponse(e)
    /\ UNCHANGED <<projects, memoryTags, memoryRelations, settings, globalContext,
                   nextProjectId, nextMemoryId>>

ExecMemoryUpdate(e) ==
    LET id == e.args.id
    IN  /\ clock < MaxClock
        /\ clock' = clock + 1
        /\ memories' =
             IF id \in DOMAIN memories
             THEN [memories EXCEPT ![id] =
                     [@ EXCEPT
                        !.title = IF e.args.title # NoArg THEN e.args.title ELSE @,
                        !.content =
                            IF e.args.content = NoArg THEN @
                            ELSE IF e.args.append
                                 THEN e.mem.content \o "\n\n" \o e.args.content
                                 ELSE e.args.content,
                        !.status = IF e.args.status # NoArg THEN e.args.status ELSE @,
                        !.updatedAt = clock + 1]]
             ELSE memories
        /\ memoryTags' =
             IF e.args.tags # NoArg
             THEN {x \in memoryTags : x[1] # id}
                  \cup {<<id, NormalizeTag(t)>> : t \in TagNames(e.args.tags)}
             ELSE memoryTags
        /\ resp' = ExecResponse(e)
        /\ UNCHANGED <<projects, memoryRelations, settings, globalContext,
                       nextProjectId, nextMemoryId>>

\* handleDelete's executor (memory): the row goes, and with it, by the schema's
\* ON DELETE CASCADE / SET NULL, its tags, its relations and a pointer to it.
ExecMemoryDelete(e) ==
    LET id == e.args.id
    IN  /\ memories' = Without(memories, id)
        /\ memoryTags' = {x \in memoryTags : x[1] # id}
        /\ memoryRelations' = {x \in memoryRelations : x[1] # id /\ x[2] # id}
        /\ globalContext' =
             IF globalContext.activeIdentityId = id
             THEN [globalContext EXCEPT !.activeIdentityId = NoId]
             ELSE globalContext
        /\ resp' = ExecResponse(e)
        /\ UNCHANGED <<projects, settings, nextProjectId, nextMemoryId, clock>>

\* handleUpdate's executor (project).
ExecProjectUpdate(e) ==
    LET id == e.args.id
    IN  /\ clock < MaxClock
        /\ clock' = clock + 1
        /\ projects' =
             IF id \in DOMAIN projects
             THEN [projects EXCEPT ![id] =
                     [@ EXCEPT
                        !.status = IF e.args.status # NoArg THEN e.args.status ELSE @,
                        !.permission =
                            IF e.args.permission # NoArg THEN e.args.permission ELSE @,
                        !.defaultMemoryPermission =
                            IF e.args.default_memory_permission # NoArg
                            THEN e.args.default_memory_permission ELSE @,
                        !.updatedAt = clock + 1]]
             ELSE projects
        /\ resp' = ExecResponse(e)
        /\ UNCHANGED <<memories, memoryTags, memoryRelations, settings, globalContext,
                       nextProjectId, nextMemoryId>>

\* A delete that removes the project's row.
ExecProjectDeleteRow(e) ==
    /\ clock < MaxClock
    /\ clock' = clock + 1
    /\ projects' = Without(projects, e.args.id)
    /\ resp' = ExecResponse(e)
    /\ UNCHANGED <<memories, memoryTags, memoryRelations, settings, globalContext,
                   nextProjectId, nextMemoryId>>

\* handleDelete's executor (project): a soft delete.
ExecProjectDelete(e) ==
    LET id == e.args.id
    IN  /\ clock < MaxClock
        /\ clock' = clock + 1
        /\ projects' =
             IF id \in DOMAIN projects
             THEN [projects EXCEPT ![id] = [@ EXCEPT !.status = "deleted",
                                                     !.updatedAt = clock + 1]]
             ELSE projects
        /\ resp' = ExecResponse(e)
        /\ UNCHANGED <<memories, memoryTags, memoryRelations, settings, globalContext,
                       nextProjectId, nextMemoryId>>

\* An executor that only reads the row it was created for.
ExecRead(e) ==
    /\ resp' = ExecResponse(e)
    /\ UNCHANGED <<store, nextProjectId, nextMemoryId, clock>>

\* executor()
Execute(e) ==
    \/ e.kind = "memory.update" /\ ExecMemoryUpdate(e)
    \/ e.kind = "memory.delete" /\ ExecMemoryDelete(e)
    \/ e.kind = "project.update" /\ ExecProjectUpdate(e)
    \/ e.kind = "project.delete" /\ ExecProjectDelete(e)
    \/ e.kind = "read" /\ ExecRead(e)

-----------------------------------------------------------------------------
(* The Permission Guard *)

ProtectedEntity(id, name, type, permission) ==
    [id |-> id, name |-> name, type |-> type, permission |-> permission]

\* A guard that also asks before a read of a guarded entity.
GuardDecisionAskOnRead(skipAll, permission, action) ==
    IF skipAll = "true" THEN "execute"
    ELSE IF permission = "locked" THEN "blocked_locked"
    ELSE IF permission = "read_only" /\ action # "read" THEN "blocked_read_only"
    ELSE IF permission = "guarded" THEN "ask"
    ELSE "execute"

\* A guard that consults the permission matrix before the bypass setting.
GuardDecisionMatrixFirst(skipAll, permission, action) ==
    IF permission = "locked" THEN "blocked_locked"
    ELSE IF permission = "read_only" /\ action # "read" THEN "blocked_read_only"
    ELSE IF skipAll = "true" THEN "execute"
    ELSE IF permission = "guarded" /\ action # "read" THEN "ask"
    ELSE "execute"

\* The branch guardedAction takes.
GuardDecision(skipAll, permission, action) ==
    IF skipAll = "true" THEN "execute"
    ELSE IF permission = "locked" THEN "blocked_locked"
    ELSE IF permission = "read_only" /\ action # "read" THEN "blocked_read_only"
    ELSE IF permission = "guarded" /\ action # "read" THEN "ask"
    ELSE "execute"

\* A locked-entity error that names the entity.
BlockedLockedNamed(tool, entity) ==
    Response(tool, "BLOCKED",
             <<Line("BLOCKED:locked", entity.type, entity.id, entity.name, "", TRUE)>>)

\* BLOCKED: <type> [<id>] is locked.
BlockedLocked(tool, entity) ==
    Response(tool, "BLOCKED",
             <<Line("BLOCKED:locked", entity.type, entity.id, "", "", FALSE)>>)

\* BLOCKED: <type> [<id>] "<name>" is read-only.
BlockedReadOnly(tool, entity) ==
    Response(tool, "BLOCKED",
             <<Line("BLOCKED:read_only", entity.type, entity.id, entity.name, "", TRUE)>>)

\* CANCELLED: User denied <action> on <type> [<id>] "<name>".
Cancelled(tool, entity) ==
    Response(tool, "CANCELLED",
             <<Line("CANCELLED", entity.type, entity.id, entity.name, "", TRUE)>>)

\* guardedAction up to its return or to its await of context.ask.
\* The guardedAction call of the latest tool call; `active` while it waits in
\* context.ask.
GuardCall(tool, entity, action, skipAll, e, waiting) ==
    [entered |-> TRUE, active |-> waiting, tool |-> tool, entity |-> entity,
     action |-> action, skipAll |-> skipAll, exec |-> e]

guardedAction(tool, entity, action, e) ==
    LET skipAll == GetSetting("dangerously_skip_memory_permission")
        decision == GuardDecision(skipAll, entity.permission, action)
    IN  /\ call' = GuardCall(tool, entity, action, skipAll, e, decision = "ask")
        /\ \/ /\ decision = "execute"
              /\ asked' = 0
              /\ ran' = TRUE
              /\ Execute(e)
           \/ /\ decision = "blocked_locked"
              /\ asked' = 0
              /\ ran' = FALSE
              /\ resp' = BlockedLocked(tool, entity)
              /\ UNCHANGED <<store, nextProjectId, nextMemoryId, clock>>
           \/ /\ decision = "blocked_read_only"
              /\ asked' = 0
              /\ ran' = FALSE
              /\ resp' = BlockedReadOnly(tool, entity)
              /\ UNCHANGED <<store, nextProjectId, nextMemoryId, clock>>
           \/ /\ decision = "ask"
              /\ asked' = 1
              /\ ran' = FALSE
              /\ resp' = Response(tool, "asking", <<>>)
              /\ UNCHANGED <<store, nextProjectId, nextMemoryId, clock>>

\* context.ask resolves: the user approves, and the executor runs.
AskAccept ==
    /\ call.active
    /\ ran' = TRUE
    /\ call' = [call EXCEPT !.active = FALSE]
    /\ Execute(call.exec)
    /\ UNCHANGED <<asked, studioOps>>

\* A refusal after which the row is gone all the same.
AskRejectAfterWrite ==
    /\ call.active
    /\ call' = [call EXCEPT !.active = FALSE]
    /\ resp' = Cancelled(call.tool, call.entity)
    /\ memories' = Without(memories, call.entity.id)
    /\ UNCHANGED <<projects, memoryTags, memoryRelations, settings, globalContext,
                   nextProjectId, nextMemoryId, clock, asked, ran, studioOps>>

\* context.ask rejects or throws: the call returns CANCELLED.
AskReject ==
    /\ call.active
    /\ call' = [call EXCEPT !.active = FALSE]
    /\ resp' = Cancelled(call.tool, call.entity)
    /\ UNCHANGED <<store, nextProjectId, nextMemoryId, clock, asked, ran, studioOps>>

-----------------------------------------------------------------------------
(* Helpers of the handlers *)

\* The handler does not enter guardedAction.
NoGuard == call' = NoCall /\ asked' = 0 /\ ran' = FALSE

\* A handler returns r without writing and without entering guardedAction.
Reply(r) ==
    /\ resp' = r
    /\ UNCHANGED <<store, nextProjectId, nextMemoryId, clock>>
    /\ NoGuard

\* validateEnum: the error text, or null (here "") when the value is allowed.
validateEnum(value, allowed, fieldName) ==
    IF value \in Range(allowed) THEN "" ELSE "Invalid " \o fieldName

AlphaNumerics ==
    {"a", "b", "c", "d", "e", "f", "g", "h", "i", "j", "k", "l", "m", "n", "o", "p", "q",
     "r", "s", "t", "u", "v", "w", "x", "y", "z",
     "0", "1", "2", "3", "4", "5", "6", "7", "8", "9"}

\* .replace(/[\s_]+/g, "-").replace(/[^a-z0-9-]/g, "").replace(/-+/g, "-") on
\* lower-case text; prev is the last character kept so far.
RECURSIVE Hyphenate(_, _)
Hyphenate(s, prev) ==
    IF s = "" THEN ""
    ELSE LET c == Char(s, 1)
             rest == SubSeq(s, 2, Len(s))
         IN  IF c \in {" ", "_", "-"}
             THEN IF prev = "-" THEN Hyphenate(rest, prev) ELSE "-" \o Hyphenate(rest, "-")
             ELSE IF c \in AlphaNumerics THEN c \o Hyphenate(rest, c)
             ELSE Hyphenate(rest, prev)

\* .replace(/^-|-$/g, "")
StripHyphens(s) ==
    LET a == IF s # "" /\ Char(s, 1) = "-" THEN SubSeq(s, 2, Len(s)) ELSE s
    IN  IF a # "" /\ Char(a, Len(a)) = "-" THEN SubSeq(a, 1, Len(a) - 1) ELSE a

\* normalizeProjectName (leading and trailing blanks become hyphens that the
\* last step strips, as trim() would have removed them).
normalizeProjectName(name) == StripHyphens(Hyphenate(ToLower(name), ""))

\* The project row with this (normalized) name, or NoId.
ProjectByName(name) ==
    IF \E id \in DOMAIN projects : projects[id].name = name
    THEN CHOOSE id \in DOMAIN projects : projects[id].name = name
    ELSE NoId

\* The active project as a session that started in global mode remembers it.
getActiveProjectAtStart == NoId

\* getActiveProject: the pointer is read from global_context on every call;
\* the id of the active project, or NoId.
getActiveProject ==
    IF globalContext.activeProjectId = NoId THEN NoId
    ELSE IF globalContext.activeProjectId \in DOMAIN projects
         THEN globalContext.activeProjectId
         ELSE NoId

\* resolveProject: by name when one is given, else the active project.
resolveProject(name) ==
    IF name # NoArg THEN ProjectByName(normalizeProjectName(name)) ELSE getActiveProject

-----------------------------------------------------------------------------
(* minni_memory: save, update, delete *)

MemoryEntity(id) ==
    ProtectedEntity(id, memories[id].title, "memory", memories[id].permission)

\* handleUpdate (memory)
MemoryUpdate(args) ==
    /\ ~call.active
    /\ UNCHANGED studioOps
    /\ IF args.id = NoId
       THEN Reply(Response("minni_memory.update", "Memory ID is required.", <<>>))
       ELSE IF args.id \notin DOMAIN memories
       THEN Reply(Response("minni_memory.update", "not found",
                           <<Line("not found", "memory", args.id, "", "", FALSE)>>))
       ELSE IF args.status # NoArg /\ validateEnum(args.status, MEMORY_STATUS, "status") # ""
       THEN Reply(Response("minni_memory.update", "Invalid status", <<>>))
       ELSE guardedAction("minni_memory.update", MemoryEntity(args.id), "update",
                          [kind |-> "memory.update", args |-> args, mem |-> memories[args.id]])

\* handleDelete (memory)
MemoryDelete(id) ==
    /\ ~call.active
    /\ UNCHANGED studioOps
    /\ IF id = NoId
       THEN Reply(Response("minni_memory.delete", "Memory ID is required.", <<>>))
       ELSE IF id \notin DOMAIN memories
       THEN Reply(Response("minni_memory.delete", "not found",
                           <<Line("not found", "memory", id, "", "", FALSE)>>))
       ELSE guardedAction("minni_memory.delete", MemoryEntity(id), "delete",
                          [kind |-> "memory.delete", args |-> [id |-> id],
                           mem |-> memories[id]])

\* A cascade that consults the setting before the project's default.
ResolvePermissionSettingFirst(type, permissionArg, proj) ==
    LET explicit == IF type = "scratchpad" THEN "open" ELSE permissionArg
        settingPerm == GetSetting("default_memory_permission")
        fromSetting ==
            IF explicit = NoArg /\ settingPerm # "" /\ settingPerm \in Range(PERMISSION)
            THEN settingPerm
            ELSE explicit
        fromProject ==
            IF fromSetting = NoArg /\ proj # NoId /\ proj \in DOMAIN projects
            THEN projects[proj].defaultMemoryPermission
            ELSE fromSetting
    IN  IF fromProject = NoArg THEN "guarded" ELSE fromProject

\* The permission cascade without the scratchpad rule.
ResolvePermissionAnyType(type, permissionArg, proj) ==
    LET fromProject ==
            IF permissionArg = NoArg /\ proj # NoId /\ proj \in DOMAIN projects
            THEN projects[proj].defaultMemoryPermission
            ELSE permissionArg
        settingPerm == GetSetting("default_memory_permission")
        fromSetting ==
            IF fromProject = NoArg /\ settingPerm # "" /\ settingPerm \in Range(PERMISSION)
            THEN settingPerm
            ELSE fromProject
    IN  IF fromSetting = NoArg THEN "guarded" ELSE fromSetting

\* The permission cascade of handleSave:
\* explicit -> project.defaultMemoryPermission -> setting -> "guarded".
ResolvePermission(type, permissionArg, proj) ==
    LET explicit == IF type = "scratchpad" THEN "open" ELSE permissionArg
        fromProject ==
            IF explicit = NoArg /\ proj # NoId /\ proj \in DOMAIN projects
            THEN projects[proj].defaultMemoryPermission
            ELSE explicit
        settingPerm == GetSetting("default_memory_permission")
        fromSetting ==
            IF fromProject = NoArg /\ settingPerm # "" /\ settingPerm \in Range(PERMISSION)
            THEN settingPerm
            ELSE fromProject
    IN  IF fromSetting = NoArg THEN "guarded" ELSE fromSetting

\* A lookup that never finds the scope's context memory.
ContextsOfNone(proj) == {}

\* The context memories of a scope (a project id, or NoId for the global scope).
ContextsOf(proj) ==
    {id \in DOMAIN memories : memories[id].type = "context" /\ memories[id].projectId = proj}

\* The first validation error of handleSave's arguments, or "".
SaveArgsError(args) ==
    IF args.type = NoArg THEN "Type is required."
    ELSE IF args.title = NoArg THEN "Title is required."
    ELSE IF args.content = NoArg THEN "Content is required."
    ELSE IF validateEnum(args.type, MEMORY_TYPE, "type") # "" THEN "Invalid type"
    ELSE IF args.status # NoArg /\ validateEnum(args.status, MEMORY_STATUS, "status") # ""
    THEN "Invalid status"
    ELSE IF args.permission # NoArg /\ validateEnum(args.permission, PERMISSION, "permission") # ""
    THEN "Invalid permission"
    ELSE ""

\* handleSave: a context memory is upserted (one per scope), anything else inserted.
MemorySave(args) ==
    LET tool == "minni_memory.save"
        proj == resolveProject(args.project)
    IN  /\ ~call.active
        /\ UNCHANGED studioOps
        /\ IF SaveArgsError(args) # "" THEN Reply(Response(tool, SaveArgsError(args), <<>>))
           ELSE IF args.type = "context" /\ ContextsOf(proj) # {}
           THEN \E existing \in ContextsOf(proj) :
                  /\ clock < MaxClock
                  /\ clock' = clock + 1
                  /\ memories' = [memories EXCEPT ![existing] =
                         [@ EXCEPT !.title = args.title, !.content = args.content,
                                   !.updatedAt = clock + 1]]
                  /\ resp' = Response(tool, "Context updated",
                                      <<Line("Context updated", "memory", existing,
                                             args.title, "", FALSE)>>)
                  /\ UNCHANGED <<projects, memoryTags, memoryRelations, settings,
                                 globalContext, nextProjectId, nextMemoryId>>
                  /\ NoGuard
           ELSE /\ clock < MaxClock
                /\ clock' = clock + 1
                /\ memories' = memories @@ (nextMemoryId :>
                       MemoryRow(proj, args.type, args.title, args.content,
                                 IF args.status # NoArg THEN args.status ELSE "draft",
                                 ResolvePermission(args.type, args.permission, proj),
                                 clock + 1))
                /\ nextMemoryId' = nextMemoryId + 1
                /\ memoryTags' = memoryTags \cup
                       {<<nextMemoryId, NormalizeTag(t)>> : t \in TagNames(args.tags)}
                /\ resp' = Response(tool, "Saved",
                                    <<Line("Saved", "memory", nextMemoryId, args.title, "",
                                           FALSE)>>)
                /\ UNCHANGED <<projects, memoryRelations, settings, globalContext,
                               nextProjectId>>
                /\ NoGuard

-----------------------------------------------------------------------------
(* Query results: ORDER BY updated_at DESC LIMIT n *)

\* Every order of the rows `ids` of `table` that ORDER BY updated_at DESC can
\* return: rows of equal updated_at come in either order.
RECURSIVE ByUpdatedAtDesc(_, _)
ByUpdatedAtDesc(table, ids) ==
    IF ids = {} THEN {<<>>}
    ELSE UNION {{<<m>> \o rest : rest \in ByUpdatedAtDesc(table, ids \ {m})} :
                m \in {x \in ids : \A y \in ids : table[x].updatedAt >= table[y].updatedAt}}

\* Every order of a set of rows returned by a query without ORDER BY.
RECURSIVE AnyOrder(_)
AnyOrder(ids) ==
    IF ids = {} THEN {<<>>}
    ELSE UNION {{<<m>> \o rest : rest \in AnyOrder(ids \ {m})} : m \in ids}

Take(seq, n) == SubSeq(seq, 1, IF Len(seq) < n THEN Len(seq) ELSE n)

Limited(seqs, n) == {Take(q, n) : q \in seqs}

DigitValue(c) ==
    CASE c = "0" -> 0 [] c = "1" -> 1 [] c = "2" -> 2 [] c = "3" -> 3 [] c = "4" -> 4
      [] c = "5" -> 5 [] c = "6" -> 6 [] c = "7" -> 7 [] c = "8" -> 8 [] c = "9" -> 9
      [] OTHER -> -1

\* parseInt(s, 10) of a string of decimal digits.
RECURSIVE parseInt(_)
parseInt(s) ==
    IF Len(s) = 0 THEN 0
    ELSE 10 * parseInt(SubSeq(s, 1, Len(s) - 1)) + DigitValue(Char(s, Len(s)))

-----------------------------------------------------------------------------
(* minni_memory: find *)

FindLimit ==
    IF GetSetting("search_default_limit") # ""
    THEN parseInt(GetSetting("search_default_limit"))
    ELSE 20

\* Scope conditions whose fallback scan is not constrained at all.
InScopeNetherAll(id, scope, proj) ==
    CASE scope = "all" -> TRUE
      [] scope = "project" -> memories[id].projectId = proj
      [] scope = "nether" -> TRUE

\* The scope conditions of handleFind: none, the active project, everything else.
InScope(id, scope, proj) ==
    CASE scope = "all" -> TRUE
      [] scope = "project" -> memories[id].projectId = proj
      [] scope = "nether" -> memories[id].projectId = NoId \/ memories[id].projectId # proj

\* handleFind's WHERE clause without the permission condition.
FindMatchesUnfiltered(id, args, scope, proj) ==
    /\ InScope(id, scope, proj)
    /\ args.type = NoArg \/ memories[id].type = args.type
    /\ \/ args.query = NoArg
       \/ Like(memories[id].title, args.query)
       \/ Like(memories[id].content, args.query)
       \/ <<id, Trim(ToLower(args.query))>> \in memoryTags

\* The WHERE clause of searchMemories.
FindMatches(id, args, scope, proj) ==
    /\ memories[id].permission # "locked"
    /\ InScope(id, scope, proj)
    /\ args.type = NoArg \/ memories[id].type = args.type
    /\ \/ args.query = NoArg
       \/ Like(memories[id].title, args.query)
       \/ Like(memories[id].content, args.query)
       \/ <<id, Trim(ToLower(args.query))>> \in memoryTags

searchMemories(args, scope, proj) ==
    Limited(ByUpdatedAtDesc(memories,
                {id \in DOMAIN memories : FindMatches(id, args, scope, proj)}), FindLimit)

\* formatRow: one result line of section `section`.
FormatRows(section, rows) ==
    [i \in 1..Len(rows) |->
        Line(section, "memory", rows[i], memories[rows[i]].title, "", TRUE)]

\* The group of a row of the fallback section: its project's name, or "Global".
GroupKey(id) ==
    IF memories[id].projectId # NoId /\ memories[id].projectId \in DOMAIN projects
    THEN projects[memories[id].projectId].name
    ELSE "Global"

Collation == "-0123456789abcdefghijklmnopqrstuvwxyz"

CharRank(c) ==
    IF \E i \in 1..Len(Collation) : Char(Collation, i) = c
    THEN CHOOSE i \in 1..Len(Collation) : Char(Collation, i) = c
    ELSE 0

\* a.localeCompare(b) < 0 over normalized project names.
RECURSIVE NameBefore(_, _)
NameBefore(a, b) ==
    IF Len(b) = 0 THEN FALSE
    ELSE IF Len(a) = 0 THEN TRUE
    ELSE IF Char(a, 1) = Char(b, 1) THEN NameBefore(SubSeq(a, 2, Len(a)), SubSeq(b, 2, Len(b)))
    ELSE CharRank(Char(a, 1)) < CharRank(Char(b, 1))

\* A comparison of group keys by name alone.
KeyBeforeByName(a, b) == NameBefore(a, b)

\* sortedKeys: named projects alphabetically, "Global" last.
KeyBefore(a, b) ==
    IF a = "Global" THEN FALSE ELSE IF b = "Global" THEN TRUE ELSE NameBefore(a, b)

RECURSIVE SortedKeys(_)
SortedKeys(keys) ==
    IF keys = {} THEN <<>>
    ELSE LET first == CHOOSE k \in keys : \A o \in keys \ {k} : KeyBefore(k, o)
         IN  <<first>> \o SortedKeys(keys \ {first})

GroupRows(rows, key) == SelectSeq(rows, LAMBDA id : GroupKey(id) = key)

RECURSIVE NetherLines(_, _)
NetherLines(rows, keys) ==
    IF keys = <<>> THEN <<>>
    ELSE <<Line("nether_group", "group", NoId, Head(keys), "", FALSE)>>
         \o FormatRows("nether", GroupRows(rows, Head(keys)))
         \o NetherLines(rows, Tail(keys))

\* handleFind.
MemoryFind(args) ==
    LET tool == "minni_memory.find"
        active == getActiveProject
    IN  /\ ~call.active
        /\ IF active = NoId
           THEN \E results \in searchMemories(args, "all", NoId) :
                  resp' = IF results = <<>>
                          THEN Response(tool, "No memories found.", <<>>)
                          ELSE Response(tool, "results", FormatRows("list", results))
           ELSE \E projectResults \in searchMemories(args, "project", active),
                   netherResults \in searchMemories(args, "nether", active) :
                  resp' = IF projectResults = <<>> /\ netherResults = <<>>
                          THEN Response(tool, "No memories found.", <<>>)
                          ELSE Response(tool, "results",
                                 (IF projectResults = <<>> THEN <<>>
                                  ELSE <<Line("in_project_header", "project", active,
                                              projects[active].name, "", TRUE)>>
                                       \o FormatRows("in_project", projectResults))
                                 \o NetherLines(netherResults,
                                       SortedKeys({GroupKey(id) : id \in Range(netherResults)})))
        /\ UNCHANGED <<store, nextProjectId, nextMemoryId, clock, studioOps>>
        /\ NoGuard

-----------------------------------------------------------------------------
(* minni_equip, minni_get, minni_hud *)

\* resolveRelations: the "uses" line names every related memory that exists.
UsesLines(memoryId, order) ==
    [i \in 1..Len(order) |->
        Line("uses", "memory", order[i], memories[order[i]].title, "", TRUE)]

RelatedTo(memoryId) ==
    {r \in DOMAIN memories : <<memoryId, r>> \in memoryRelations}

\* The memory section of minni_equip without the permission condition.
EquipMemoryLinesUnfiltered(id, order) ==
    IF id \notin DOMAIN memories
    THEN <<Line("not found", "memory", id, "", "", FALSE)>>
    ELSE <<Line("beacon", "memory", id, memories[id].title, memories[id].content, TRUE)>>
         \o UsesLines(id, order)

\* One section of minni_equip for a memory id.
EquipMemoryLines(id, order) ==
    IF id \notin DOMAIN memories \/ memories[id].permission = "locked"
    THEN <<Line("not found", "memory", id, "", "", FALSE)>>
    ELSE <<Line("beacon", "memory", id, memories[id].title, memories[id].content, TRUE)>>
         \o UsesLines(id, order)

\* minni_equip with ids: "<id>".
EquipMemory(id) ==
    /\ ~call.active
    /\ \E order \in AnyOrder(IF id \in DOMAIN memories THEN RelatedTo(id) ELSE {}) :
          resp' = Response("minni_equip", "equipped", EquipMemoryLines(id, order))
    /\ UNCHANGED <<store, nextProjectId, nextMemoryId, clock, studioOps>>
    /\ NoGuard

\* The identity memories a lookup by title can return: never a locked one.
IdentitiesNamed(name) ==
    {id \in DOMAIN memories :
        /\ memories[id].type = "identity"
        /\ memories[id].title = name
        /\ memories[id].permission # "locked"}

\* minni_equip with identity: "<name>".
EquipIdentity(name) ==
    /\ ~call.active
    /\ IF IdentitiesNamed(name) = {}
       THEN resp' = Response("minni_equip", "equipped",
                             <<Line("identity not found", "memory", NoId, name, "", FALSE)>>)
       ELSE \E id \in IdentitiesNamed(name) :
              resp' = Response("minni_equip", "equipped",
                               <<Line("identity", "memory", id, memories[id].title,
                                      memories[id].content, TRUE)>>)
    /\ UNCHANGED <<store, nextProjectId, nextMemoryId, clock, studioOps>>
    /\ NoGuard

\* minni_get: the read by id of the tool set that has no minni_equip.
MemoryGet(id) ==
    /\ ~call.active
    /\ resp' = IF id \notin DOMAIN memories
               THEN Response("minni_get", "not found",
                             <<Line("not found", "memory", id, "", "", FALSE)>>)
               ELSE IF memories[id].permission = "locked"
               THEN Response("minni_get", "locked",
                             <<Line("locked", "memory", id, "", "", FALSE)>>)
               ELSE Response("minni_get", "memory",
                             <<Line("memory", "memory", id, memories[id].title,
                                    memories[id].content, TRUE)>>)
    /\ UNCHANGED <<store, nextProjectId, nextMemoryId, clock, studioOps>>
    /\ NoGuard

\* getActiveIdentity: the pointer, else the default_identity setting, else none.
\* The ids it can return (NoId for none).
getActiveIdentity ==
    LET pointer == globalContext.activeIdentityId
        defaultName == GetSetting("default_identity")
        fallback ==
            IF pointer # NoId THEN {pointer}
            ELSE IF defaultName # "" /\ defaultName # "null" /\ IdentitiesNamed(defaultName) # {}
            THEN IdentitiesNamed(defaultName)
            ELSE {NoId}
    IN  {IF id \in DOMAIN memories THEN id ELSE NoId : id \in fallback}

\* minni_hud: the identity line, and the identity's content when
\* force_identity_on_hud is "true" and the user, if asked, confirms.
Hud ==
    /\ ~call.active
    /\ \E identity \in getActiveIdentity, confirmed \in BOOLEAN :
          LET active == getActiveProject
              projectLine ==
                  IF active # NoId
                  THEN Line("project", "project", active, projects[active].name, "", TRUE)
                  ELSE Line("project", "project", NoId, "global", "", FALSE)
              identityLine ==
                  IF identity # NoId
                  THEN Line("identity", "memory", identity, memories[identity].title, "", TRUE)
                  ELSE Line("identity", "memory", NoId, "none", "", FALSE)
              inject ==
                  /\ GetSetting("force_identity_on_hud") = "true"
                  /\ identity # NoId
                  /\ GetSetting("ask_before_identity_injection") = "true" => confirmed
          IN  resp' = Response("minni_hud", "hud",
                         <<projectLine, identityLine>>
                         \o (IF inject
                             THEN <<Line("injection", "memory", identity,
                                         memories[identity].title,
                                         memories[identity].content, TRUE)>>
                             ELSE <<>>))
    /\ UNCHANGED <<store, nextProjectId, nextMemoryId, clock, studioOps>>
    /\ NoGuard

-----------------------------------------------------------------------------
(* minni_project: create, update, delete, load *)

ProjectEntity(id) ==
    ProtectedEntity(id, projects[id].name, "project", projects[id].permission)

\* The first validation error of a project's enum arguments, or "".
ProjectArgsError(args) ==
    IF args.status # NoArg /\ validateEnum(args.status, WRITABLE_PROJECT_STATUS, "status") # ""
    THEN "Invalid status"
    ELSE IF args.permission # NoArg /\ validateEnum(args.permission, PERMISSION, "permission") # ""
    THEN "Invalid permission"
    ELSE IF /\ args.default_memory_permission # NoArg
            /\ validateEnum(args.default_memory_permission, PERMISSION,
                            "default_memory_permission") # ""
    THEN "Invalid default_memory_permission"
    ELSE ""

\* handleCreate
ProjectCreate(args) ==
    LET name == normalizeProjectName(args.name)
        tool == "minni_project.create"
    IN  /\ ~call.active
        /\ UNCHANGED studioOps
        /\ IF args.name = NoArg THEN Reply(Response(tool, "Name is required.", <<>>))
           ELSE IF name = ""
           THEN Reply(Response(tool, "Name must contain an alphanumeric character.", <<>>))
           ELSE IF ProjectArgsError(args) # ""
           THEN Reply(Response(tool, ProjectArgsError(args), <<>>))
           ELSE IF ProjectByName(name) # NoId
           THEN Reply(Response(tool, "already exists",
                               <<Line("already exists", "project", ProjectByName(name),
                                      name, "", FALSE)>>))
           ELSE /\ clock < MaxClock
                /\ clock' = clock + 1
                /\ projects' = projects @@ (nextProjectId :>
                       ProjectRow(name,
                                  IF args.status # NoArg THEN args.status ELSE "active",
                                  IF args.permission # NoArg THEN args.permission
                                  ELSE "guarded",
                                  IF args.default_memory_permission # NoArg
                                  THEN args.default_memory_permission ELSE "guarded",
                                  clock + 1))
                /\ nextProjectId' = nextProjectId + 1
                /\ resp' = Response(tool, "Project created",
                                    <<Line("Project created", "project", nextProjectId,
                                           name, "", FALSE)>>)
                /\ UNCHANGED <<memories, memoryTags, memoryRelations, settings,
                               globalContext, nextMemoryId>>
                /\ NoGuard

\* handleUpdate (project)
ProjectUpdate(args) ==
    LET name == normalizeProjectName(args.name)
        id == ProjectByName(name)
        tool == "minni_project.update"
    IN  /\ ~call.active
        /\ UNCHANGED studioOps
        /\ IF args.name = NoArg THEN Reply(Response(tool, "Name is required.", <<>>))
           ELSE IF ProjectArgsError(args) # ""
           THEN Reply(Response(tool, ProjectArgsError(args), <<>>))
           ELSE IF id = NoId
           THEN Reply(Response(tool, "not found",
                               <<Line("not found", "project", NoId, name, "", FALSE)>>))
           ELSE guardedAction(tool, ProjectEntity(id), "update",
                              [kind |-> "project.update",
                               args |-> [id |-> id, name |-> name, status |-> args.status,
                                         permission |-> args.permission,
                                         default_memory_permission |->
                                             args.default_memory_permission]])

\* handleDelete (project)
ProjectDelete(rawName) ==
    LET name == normalizeProjectName(rawName)
        id == ProjectByName(name)
        tool == "minni_project.delete"
    IN  /\ ~call.active
        /\ UNCHANGED studioOps
        /\ IF rawName = NoArg THEN Reply(Response(tool, "Name is required.", <<>>))
           ELSE IF id = NoId
           THEN Reply(Response(tool, "not found",
                               <<Line("not found", "project", NoId, name, "", FALSE)>>))
           ELSE guardedAction(tool, ProjectEntity(id), "delete",
                              [kind |-> "project.delete",
                               args |-> [id |-> id, name |-> name]])

\* A load that answers without writing the pointer row.
setActiveProjectNowhere(id) == UNCHANGED globalContext

\* setActiveProject
setActiveProject(id) == globalContext' = [globalContext EXCEPT !.activeProjectId = id]

\* handleLoad: no name switches to global mode, a name to that project.
ProjectLoad(rawName) ==
    LET name == normalizeProjectName(rawName)
        id == ProjectByName(name)
        tool == "minni_project.load"
    IN  /\ ~call.active
        /\ UNCHANGED studioOps
        /\ IF rawName = NoArg
           THEN /\ setActiveProject(NoId)
                /\ \E list \in Limited(ByUpdatedAtDesc(projects,
                                 {p \in DOMAIN projects : projects[p].status # "deleted"}), 10) :
                       resp' = Response(tool, "Global Mode",
                                        [i \in 1..Len(list) |->
                                            Line("project", "project", list[i],
                                                 projects[list[i]].name, "", TRUE)])
                /\ UNCHANGED <<projects, memories, memoryTags, memoryRelations, settings,
                               nextProjectId, nextMemoryId, clock>>
                /\ NoGuard
           ELSE IF id = NoId
           THEN Reply(Response(tool, "not found",
                               <<Line("not found", "project", NoId, name, "", FALSE)>>))
           ELSE IF projects[id].status = "deleted"
           THEN Reply(Response(tool, "has been deleted",
                               <<Line("has been deleted", "project", id, name, "", FALSE)>>))
           ELSE /\ setActiveProject(id)
                /\ resp' = Response(tool, "loaded",
                                    <<Line("project", "project", id, projects[id].name, "",
                                           TRUE)>>)
                /\ UNCHANGED <<projects, memories, memoryTags, memoryRelations, settings,
                               nextProjectId, nextMemoryId, clock>>
                /\ NoGuard

\* A caller of guardedAction with the action "read": its executor returns the row.
GuardRead(id) ==
    /\ ~call.active
    /\ id \in DOMAIN memories
    /\ UNCHANGED studioOps
    /\ guardedAction("guardedAction.read", MemoryEntity(id), "read",
                     [kind |-> "read", args |-> [id |-> id], mem |-> memories[id]])

-----------------------------------------------------------------------------
(* Direct database access (Minni Studio, the seeder): the only writers of    *)
(* settings, of the identity pointer and of memory_relations                 *)

StudioSetSetting(key, value) ==
    /\ studioOps < MaxStudioOps
    /\ GetSetting(key) # value
    /\ settings' = [settings EXCEPT ![key] = value]
    /\ studioOps' = studioOps + 1
    /\ UNCHANGED <<projects, memories, memoryTags, memoryRelations, globalContext,
                   nextProjectId, nextMemoryId, clock, call, asked, ran, resp>>

StudioSetActiveIdentity(id) ==
    /\ studioOps < MaxStudioOps
    /\ id \in DOMAIN memories
    /\ memories[id].type = "identity"
    /\ globalContext.activeIdentityId # id
    /\ globalContext' = [globalContext EXCEPT !.activeIdentityId = id]
    /\ studioOps' = studioOps + 1
    /\ UNCHANGED <<projects, memories, memoryTags, memoryRelations, settings,
                   nextProjectId, nextMemoryId, clock, call, asked, ran, resp>>

\* The permission column of a memory is written by Minni Studio alone, also
\* while a tool call of the session waits in context.ask.
StudioSetPermission(id, permission) ==
    /\ studioOps < MaxStudioOps
    /\ id \in DOMAIN memories
    /\ memories[id].permission # permission
    /\ memories' = [memories EXCEPT ![id] = [@ EXCEPT !.permission = permission]]
    /\ studioOps' = studioOps + 1
    /\ UNCHANGED <<projects, memoryTags, memoryRelations, settings, globalContext,
                   nextProjectId, nextMemoryId, clock, call, asked, ran, resp>>

StudioAddRelation(memoryId, relatedId) ==
    /\ studioOps < MaxStudioOps
    /\ memoryId \in DOMAIN memories
    /\ relatedId \in DOMAIN memories
    /\ memoryId # relatedId
    /\ <<memoryId, relatedId>> \notin memoryRelations
    /\ memoryRelations' = memoryRelations \cup {<<memoryId, relatedId>>}
    /\ studioOps' = studioOps + 1
    /\ UNCHANGED <<projects, memories, memoryTags, settings, globalContext,
                   nextProjectId, nextMemoryId, clock, call, asked, ran, resp>>

-----------------------------------------------------------------------------
(* initializeDatabase: CREATE TABLE IF NOT EXISTS, the v1 migration, the seeds *)

\* The tables as one value, so that the steps of a run compose.
Database ==
    [projects |-> projects, memories |-> memories, memoryTags |-> memoryTags,
     settings |-> settings, globalContext |-> globalContext, nextMemoryId |-> nextMemoryId]

\* text.split("\n")[0]
RECURSIVE FirstLine(_)
FirstLine(text) ==
    IF text = "" \/ Char(text, 1) = "\n" THEN ""
    ELSE Char(text, 1) \o FirstLine(SubSeq(text, 2, Len(text)))

\* text.substring(0, n)
Substring(text, n) == IF Len(text) <= n THEN text ELSE SubSeq(text, 1, n)

\* The title of the migrated identity: its first line, or "Default Identity".
IdentityTitle(identity) ==
    LET firstLine == Substring(Trim(FirstLine(identity)), 100)
    IN  IF firstLine = "" THEN "Default Identity" ELSE firstLine

\* JSON.parse of a v1 preferences document followed by the three lookups
\* prefs.memory.defaultPermission, prefs.planning.autoCreateTasks and
\* prefs.search.defaultLimit, each through String(); "" stands for undefined.
\* A document that is not JSON makes Result.try return an Err.
JsonParse(text) ==
    CASE text = "{\"memory\":{\"defaultPermission\":\"open\"}}" ->
             [ok |-> TRUE, defaultPermission |-> "open", autoCreateTasks |-> "",
              defaultLimit |-> ""]
      [] text = "{\"planning\":{\"autoCreateTasks\":true},\"search\":{\"defaultLimit\":5}}" ->
             [ok |-> TRUE, defaultPermission |-> "", autoCreateTasks |-> "true",
              defaultLimit |-> "5"]
      [] text = "{}" ->
             [ok |-> TRUE, defaultPermission |-> "", autoCreateTasks |-> "",
              defaultLimit |-> ""]
      [] text = "{\"memory\":" ->
             [ok |-> FALSE, defaultPermission |-> "", autoCreateTasks |-> "",
              defaultLimit |-> ""]

\* The settings the preferences step writes: the mappings whose value is not null.
PreferenceMappings(prefs) ==
    LET all == [default_memory_permission |-> prefs.defaultPermission,
                auto_create_tasks |-> prefs.autoCreateTasks,
                search_default_limit |-> prefs.defaultLimit]
    IN  [key \in {k \in DOMAIN all : all[k] # ""} |-> all[key]]

\* INSERT OR REPLACE INTO settings: the written rows win.
InsertOrReplace(table, rows) ==
    [key \in DOMAIN table \cup DOMAIN rows |->
        IF key \in DOMAIN rows THEN rows[key] ELSE table[key]]

\* INSERT OR IGNORE INTO settings: the stored rows win.
InsertOrIgnore(table, rows) ==
    [key \in DOMAIN table \cup DOMAIN rows |->
        IF key \in DOMAIN table THEN table[key] ELSE rows[key]]

\* INSERT INTO memories: the row gets the next AUTOINCREMENT id.
InsertMemory(d, row) ==
    [d EXCEPT !.memories = @ @@ (d.nextMemoryId :> row), !.nextMemoryId = @ + 1]

\* The identity step without the look at the pointer.
MigrateIdentityUnchecked(d, lg, now) ==
    IF lg.identity # ""
    THEN [InsertMemory(d, MemoryRow(NoId, "identity", IdentityTitle(lg.identity),
                                    lg.identity, "proven", "guarded", now))
             EXCEPT !.globalContext.activeIdentityId = d.nextMemoryId]
    ELSE d

\* The identity step without the UPDATE of the pointer.
MigrateIdentityNoPointer(d, lg, now) ==
    IF lg.identity # "" /\ d.globalContext.activeIdentityId = NoId
    THEN InsertMemory(d, MemoryRow(NoId, "identity", IdentityTitle(lg.identity),
                                   lg.identity, "proven", "guarded", now))
    ELSE d

\* migrateFromV1, identity step: the legacy text becomes an identity memory and
\* the pointer is set to it, unless the pointer is already set.
MigrateIdentity(d, lg, now) ==
    IF lg.identity # "" /\ d.globalContext.activeIdentityId = NoId
    THEN [InsertMemory(d, MemoryRow(NoId, "identity", IdentityTitle(lg.identity),
                                    lg.identity, "proven", "guarded", now))
             EXCEPT !.globalContext.activeIdentityId = d.nextMemoryId]
    ELSE d

\* migrateFromV1, preferences step.
MigratePreferences(d, lg) ==
    IF lg.preferences # "" /\ JsonParse(lg.preferences).ok
    THEN [d EXCEPT !.settings =
             InsertOrReplace(@, PreferenceMappings(JsonParse(lg.preferences)))]
    ELSE d

\* The context memories of a scope in the tables d.
ExistingContext(d, proj) ==
    {id \in DOMAIN d.memories :
        d.memories[id].type = "context" /\ d.memories[id].projectId = proj}

\* migrateFromV1, global context_summary step.
MigrateGlobalContext(d, lg, now) ==
    IF lg.contextSummary # "" /\ ExistingContext(d, NoId) = {}
    THEN InsertMemory(d, MemoryRow(NoId, "context", "Global Context", lg.contextSummary,
                                   "draft", "open", now))
    ELSE d

\* migrateFromV1, project context_summary step: the projects whose summary is
\* not NULL, visited in rowid order.
RECURSIVE MigrateProjectContexts(_, _, _, _)
MigrateProjectContexts(d, lg, now, todo) ==
    IF todo = {} THEN d
    ELSE LET proj == CHOOSE p \in todo : \A q \in todo : p <= q
             next == IF ExistingContext(d, proj) = {}
                     THEN InsertMemory(d, MemoryRow(proj, "context",
                                                    d.projects[proj].name \o " Context",
                                                    lg.projectSummaries[proj],
                                                    "draft", "open", now))
                     ELSE d
         IN  MigrateProjectContexts(next, lg, now, todo \ {proj})

\* migrateFromV1.  lg is what the SELECT of the v1 columns returned, NoLegacy
\* when it failed; projectsOk is whether the SELECT of projects.context_summary
\* succeeded.
migrateFromV1(d, lg, projectsOk, now) ==
    IF ~lg.present THEN d
    ELSE LET d1 == MigrateIdentity(d, lg, now)
             d2 == MigratePreferences(d1, lg)
             d3 == MigrateGlobalContext(d2, lg, now)
         IN  IF projectsOk
             THEN MigrateProjectContexts(d3, lg, now, DOMAIN lg.projectSummaries)
             ELSE d3

\* seedSettings
seedSettings(d) == [d EXCEPT !.settings = InsertOrIgnore(@, SettingDefaults)]

\* The skill memories with a title.
SkillsTitled(d, title) ==
    {id \in DOMAIN d.memories : d.memories[id].title = title /\ d.memories[id].type = "skill"}

\* One INSERT ... WHERE NOT EXISTS of seedSkills.
SeedSkill(d, title, content, now) ==
    IF SkillsTitled(d, title) = {}
    THEN InsertMemory(d, MemoryRow(NoId, "skill", title, content, "proven", "read_only", now))
    ELSE d

\* seedSkills: the two skills, then their tag links with INSERT OR IGNORE.
seedSkills(d, now) ==
    LET d1 == SeedSkill(d, SeedTechnicalTitle, SKILL_TECHNICAL, now)
        d2 == SeedSkill(d1, SeedHumanTitle, SKILL_HUMAN, now)
        common == {"system", "core", "minni", "projects", "description"}
    IN  [d2 EXCEPT !.memoryTags =
            @ \cup {<<id, t>> : id \in SkillsTitled(d2, SeedTechnicalTitle),
                                t \in common \cup {"technical"}}
              \cup {<<id, t>> : id \in SkillsTitled(d2, SeedHumanTitle),
                                t \in common \cup {"human"}}]

\* What can go wrong in a run for a reason other than a missing v1 column.
Faults == {"none", "select_legacy", "select_projects", "insert_identity"}

\* The fault strikes a statement this run executes.
Strikes(fault) ==
    CASE fault = "none" -> TRUE
      [] fault = "select_legacy" -> legacy.present
      [] fault = "select_projects" -> legacy.present
      [] fault = "insert_identity" ->
             legacy.present /\ legacy.identity # "" /\ globalContext.activeIdentityId = NoId

\* The statements of initializeDatabase that write rows, in order.
Run(d, lg, projectsOk, now) ==
    seedSkills(seedSettings(migrateFromV1(d, lg, projectsOk, now)), now)

\* initializeDatabase at plugin start.  An error of the SELECT of the v1 columns
\* or of projects.context_summary is taken for a missing column, whatever it
\* is; an error of a write propagates and the plugin does not start.
initializeDatabase(fault) ==
    LET lg == IF fault = "select_legacy" THEN NoLegacy ELSE legacy
        d == Run(Database, lg, fault # "select_projects", clock)
    IN  /\ boot.runs < MaxRuns
        /\ Strikes(fault)
        /\ IF fault = "insert_identity"
           THEN /\ boot' = [boot EXCEPT !.status = "failed", !.fault = fault, !.runs = @ + 1]
                /\ UNCHANGED <<projects, memories, memoryTags, settings, globalContext,
                               nextMemoryId>>
           ELSE /\ boot' = [boot EXCEPT !.status = "ok", !.fault = fault, !.runs = @ + 1]
                /\ projects' = d.projects
                /\ memories' = d.memories
                /\ memoryTags' = d.memoryTags
                /\ settings' = d.settings
                /\ globalContext' = d.globalContext
                /\ nextMemoryId' = d.nextMemoryId
        /\ call' = NoCall
        /\ asked' = 0
        /\ ran' = FALSE
        /\ resp' = NoResponse
        /\ UNCHANGED <<memoryRelations, nextProjectId, clock, studioOps, tasks, nextTaskId,
                       legacy, pages, nextPageId>>

\* Where a run can stop between two writes of migrateFromV1: after the INSERT
\* of the identity memory and before the UPDATE of the pointer, or after the
\* identity, the preferences or the global context step.
InterruptionPoints == {"identity_insert", "identity", "preferences", "global_context"}

\* The tables as the writes before the interruption point left them.
WrittenUntil(point, d, lg, now) ==
    LET d1 == MigrateIdentity(d, lg, now)
        d2 == MigratePreferences(d1, lg)
        d3 == MigrateGlobalContext(d2, lg, now)
    IN  CASE point = "identity_insert" ->
               IF lg.identity # "" /\ d.globalContext.activeIdentityId = NoId
               THEN InsertMemory(d, MemoryRow(NoId, "identity", IdentityTitle(lg.identity),
                                              lg.identity, "proven", "guarded", now))
               ELSE d
          [] point = "identity" -> d1
          [] point = "preferences" -> d2
          [] point = "global_context" -> d3

\* A run of initializeDatabase over a v1 file that ends inside migrateFromV1
\* (the process is killed, or the next statement throws): no statement runs in
\* a transaction, so the writes made so far stay in the file.
initializeDatabaseInterrupted(point) ==
    LET d == WrittenUntil(point, Database, legacy, clock)
    IN  /\ boot.runs < MaxRuns
        /\ legacy.present
        /\ boot' = [boot EXCEPT !.status = "failed", !.fault = point, !.runs = @ + 1]
        /\ memories' = d.memories
        /\ settings' = d.settings
        /\ globalContext' = d.globalContext
        /\ nextMemoryId' = d.nextMemoryId
        /\ call' = NoCall
        /\ asked' = 0
        /\ ran' = FALSE
        /\ resp' = NoResponse
        /\ UNCHANGED <<projects, memoryTags, memoryRelations, nextProjectId, clock, studioOps,
                       tasks, nextTaskId, legacy, pages, nextPageId>>

-----------------------------------------------------------------------------
(* minni_task: create, update, delete *)

TASK_PRIORITIES == <<"high", "medium", "low">>

TASK_STATUSES == <<"todo", "in_progress", "done", "cancelled">>

\* A row of tasks.  created_at and updated_at are left out: create, update and
\* delete never read them.
TaskRow(projectId, parentId, title, priority, status) ==
    [projectId |-> projectId, parentId |-> parentId, title |-> title,
     priority |-> priority, status |-> status]

\* What the task tool leaves alone; it never enters guardedAction.
TaskFrame ==
    /\ UNCHANGED <<store, nextProjectId, nextMemoryId, clock, studioOps, legacy, boot,
                   pages, nextPageId>>
    /\ NoGuard

\* The task tool returns r without writing.
TaskReply(r) == resp' = r /\ UNCHANGED <<tasks, nextTaskId>> /\ TaskFrame

\* The first validation error of the shared arguments, or "".
TaskArgsError(args) ==
    IF args.priority # NoArg /\ validateEnum(args.priority, TASK_PRIORITIES, "priority") # ""
    THEN "Invalid priority"
    ELSE IF args.status # NoArg /\ validateEnum(args.status, TASK_STATUSES, "status") # ""
    THEN "Invalid status"
    ELSE ""

\* derivedProjectId as the explicit project, then the parent's, then the active one.
DerivedProjectExplicitFirst(args) ==
    IF args.project # NoArg THEN resolveProject(args.project)
    ELSE IF args.parent_id # NoId THEN tasks[args.parent_id].projectId
    ELSE getActiveProject

\* derivedProjectId of create, once the lookups have succeeded: the parent's
\* project_id, else the named project, else the active project (or null).
DerivedProject(args) ==
    IF args.parent_id # NoId THEN tasks[args.parent_id].projectId
    ELSE IF args.project # NoArg THEN resolveProject(args.project)
    ELSE getActiveProject

\* action = "create"
TaskCreate(args) ==
    LET tool == "minni_task.create"
    IN  /\ ~call.active
        /\ IF TaskArgsError(args) # "" THEN TaskReply(Response(tool, TaskArgsError(args), <<>>))
           ELSE IF args.title = NoArg THEN TaskReply(Response(tool, "Title is required.", <<>>))
           ELSE IF args.parent_id # NoId /\ args.parent_id \notin DOMAIN tasks
           THEN TaskReply(Response(tool, "Parent task not found",
                                   <<Line("Parent task not found", "task", args.parent_id,
                                          "", "", FALSE)>>))
           ELSE IF args.parent_id = NoId /\ args.project # NoArg
                   /\ resolveProject(args.project) = NoId
           THEN TaskReply(Response(tool, "Project not found",
                                   <<Line("Project not found", "project", NoId, args.project,
                                          "", FALSE)>>))
           ELSE /\ nextTaskId <= MaxTasks
                /\ tasks' = tasks @@ (nextTaskId :>
                       TaskRow(DerivedProject(args), args.parent_id, args.title,
                               IF args.priority # NoArg THEN args.priority ELSE "medium",
                               "todo"))
                /\ nextTaskId' = nextTaskId + 1
                /\ resp' = Response(tool, "Task created",
                                    <<Line("Task created", "task", nextTaskId, args.title, "",
                                           FALSE)>>)
                /\ TaskFrame

\* action = "update"
TaskUpdate(args) ==
    LET tool == "minni_task.update"
    IN  /\ ~call.active
        /\ IF TaskArgsError(args) # "" THEN TaskReply(Response(tool, TaskArgsError(args), <<>>))
           ELSE IF args.id = NoId THEN TaskReply(Response(tool, "Task ID is required.", <<>>))
           ELSE IF args.id \notin DOMAIN tasks
           THEN TaskReply(Response(tool, "Task not found",
                                   <<Line("Task not found", "task", args.id, "", "", FALSE)>>))
           ELSE /\ tasks' = [tasks EXCEPT ![args.id] =
                       [@ EXCEPT !.title = IF args.title # NoArg THEN args.title ELSE @,
                                 !.priority = IF args.priority # NoArg THEN args.priority ELSE @,
                                 !.status = IF args.status # NoArg THEN args.status ELSE @]]
                /\ resp' = Response(tool, "Task updated",
                                    <<Line("Task updated", "task", args.id, "", "", FALSE)>>)
                /\ UNCHANGED nextTaskId
                /\ TaskFrame

\* The rows whose parent_id is id.
Subtasks(table, id) == {t \in DOMAIN table : table[t].parentId = id}

\* The rows below id: a parent is always older than its subtasks.
RECURSIVE Descendants(_, _)
Descendants(table, id) ==
    Subtasks(table, id) \cup UNION {Descendants(table, t) : t \in Subtasks(table, id)}

\* The rows DELETE FROM tasks WHERE id = ? removes: the row, and through
\* parent_id ... ON DELETE CASCADE the rows below it when the connection
\* enforces foreign keys.  No statement of the plugin turns enforcement on.
DeletedRows(table, id) ==
    IF boot.foreignKeys THEN {id} \cup Descendants(table, id) ELSE {id}

\* action = "delete"
TaskDelete(id) ==
    LET tool == "minni_task.delete"
    IN  /\ ~call.active
        /\ IF id = NoId THEN TaskReply(Response(tool, "Task ID is required.", <<>>))
           ELSE IF id \notin DOMAIN tasks
           THEN TaskReply(Response(tool, "Task not found",
                                   <<Line("Task not found", "task", id, "", "", FALSE)>>))
           ELSE /\ tasks' = [t \in DOMAIN tasks \ DeletedRows(tasks, id) |-> tasks[t]]
                /\ resp' = Response(tool, "Deleted",
                                    <<Line("Deleted", "task", id, tasks[id].title, "", TRUE)>>)
                /\ UNCHANGED nextTaskId
                /\ TaskFrame

-----------------------------------------------------------------------------
(* The viewer server's canvas: addPage, deletePage, clearPages *)

\* DEFAULT_CONFIG.maxCanvasPages
maxCanvasPages == 20

\* What the canvas functions leave alone: they never touch the database.
CanvasFrame ==
    UNCHANGED <<store, nextProjectId, nextMemoryId, clock, call, asked, ran, resp, studioOps,
                tasks, nextTaskId, legacy, boot>>

\* A canvas that drops its newest page when it overflows.
DropNewest(pushed) ==
    IF Len(pushed) > maxCanvasPages THEN SubSeq(pushed, 1, maxCanvasPages) ELSE pushed

\* if (pages.length > maxCanvasPages) pages.shift()
DropOldest(pushed) ==
    IF Len(pushed) > maxCanvasPages THEN Tail(pushed) ELSE pushed

\* Pages pushed after the oldest page held that deletePage has removed.
Lost == IF pages = <<>> THEN 0 ELSE (nextPageId - pages[1]) - Len(pages)

\* addPage: a page is its id; its markdown and html play no part in the list.
addPage ==
    /\ nextPageId <= maxCanvasPages + MaxPushes
    /\ pages' = DropOldest(Append(pages, nextPageId))
    /\ nextPageId' = nextPageId + 1
    /\ CanvasFrame

\* deletePage: splice(idx, 1) when the id is found, nothing otherwise.
deletePage(id) ==
    /\ Lost < MaxLost
    /\ pages' = SelectSeq(pages, LAMBDA p : p # id)
    /\ UNCHANGED nextPageId
    /\ CanvasFrame

\* clearPages
clearPages ==
    /\ pages' = <<>>
    /\ UNCHANGED nextPageId
    /\ CanvasFrame

-----------------------------------------------------------------------------
(* A second session on the same database file *)

\* setActiveProject run by another session that opened the same file: the
\* pointer row changes between two operations of this session.
OtherSessionSetActiveProject(id) ==
    /\ studioOps < MaxStudioOps
    /\ ~call.active
    /\ id = NoId \/ id \in DOMAIN projects
    /\ globalContext.activeProjectId # id
    /\ globalContext' = [globalContext EXCEPT !.activeProjectId = id]
    /\ studioOps' = studioOps + 1
    /\ UNCHANGED <<projects, memories, memoryTags, memoryRelations, settings,
                   nextProjectId, nextMemoryId, clock, call, asked, ran, resp>>

-----------------------------------------------------------------------------
(* The tools over a freshly initialized database *)

\* The store as initializeDatabase leaves a new file.
Init ==
    /\ projects = <<>>
    /\ memories = SeedMemories
    /\ memoryTags = SeedMemoryTags
    /\ memoryRelations = {}
    /\ settings = SettingDefaults
    /\ globalContext = [activeProjectId |-> NoId, activeIdentityId |-> NoId]
    /\ nextProjectId = 1
    /\ nextMemoryId = 3
    /\ clock = 0
    /\ call = NoCall
    /\ asked = 0
    /\ ran = FALSE
    /\ resp = NoResponse
    /\ studioOps = 0
    /\ tasks = <<>>
    /\ nextTaskId = 1
    /\ pages = <<>>
    /\ nextPageId = 1
    /\ legacy = NoLegacy
    /\ boot = Booted

\* Arguments the callers of the model pass.
ProjectNameArgs == {"A b"}

SaveArgs ==
    [type : {"context", "identity"}, title : {"T1"}, content : {"c1"},
     project : {NoArg, "A b"}, tags : {NoArg}, status : {NoArg},
     permission : {NoArg, "read_only"}]

\* Ids a caller names: the stored rows past the first seed, and one absent id.
MemoryIdArgs == 2..nextMemoryId

UpdateArgsFor(ids) ==
    {[id |-> id, title |-> "T2", content |-> "c2", append |-> TRUE, status |-> NoArg,
      tags |-> "Core, "] : id \in ids}

UpdateArgs == UpdateArgsFor(MemoryIdArgs)

FindArgs ==
    {[query |-> NoArg, type |-> NoArg], [query |-> " Core ", type |-> NoArg],
     [query |-> "c1", type |-> "identity"]}

ProjectCreateArgs ==
    [name : ProjectNameArgs, status : {NoArg}, permission : {NoArg, "read_only"},
     default_memory_permission : {"locked"}]

ProjectUpdateArgs ==
    [name : ProjectNameArgs, status : {"paused"}, permission : {NoArg},
     default_memory_permission : {NoArg}]

IdentityNameArgs == {"T1"}

StudioSettings ==
    {<<"dangerously_skip_memory_permission", "true">>,
     <<"force_identity_on_hud", "true">>}

Next ==
    \/ \E args \in SaveArgs : MemorySave(args) /\ UNCHANGED others
    \/ \E args \in UpdateArgs : MemoryUpdate(args) /\ UNCHANGED others
    \/ \E id \in MemoryIdArgs : MemoryDelete(id) /\ UNCHANGED others
    \/ \E args \in FindArgs : MemoryFind(args) /\ UNCHANGED others
    \/ \E id \in MemoryIdArgs \cup {1} : EquipMemory(id) /\ UNCHANGED others
    \/ \E name \in IdentityNameArgs : EquipIdentity(name) /\ UNCHANGED others
    \/ \E id \in MemoryIdArgs : MemoryGet(id) /\ UNCHANGED others
    \/ Hud /\ UNCHANGED others
    \/ \E args \in ProjectCreateArgs : ProjectCreate(args) /\ UNCHANGED others
    \/ \E args \in ProjectUpdateArgs : ProjectUpdate(args) /\ UNCHANGED others
    \/ \E name \in ProjectNameArgs : ProjectDelete(name) /\ UNCHANGED others
    \/ \E name \in ProjectNameArgs \cup {NoArg} : ProjectLoad(name) /\ UNCHANGED others
    \/ AskAccept /\ UNCHANGED others
    \/ AskReject /\ UNCHANGED others
    \/ \E kv \in StudioSettings : StudioSetSetting(kv[1], kv[2]) /\ UNCHANGED others
    \/ \E id \in DOMAIN memories : StudioSetActiveIdentity(id) /\ UNCHANGED others
    \/ \E id \in DOMAIN memories : StudioAddRelation(1, id) /\ UNCHANGED others

Spec == Init /\ [][Next]_vars

-----------------------------------------------------------------------------
(* The Permission Guard over every permission level, action and bypass value *)

GuardTitles == <<"O1", "G1", "R1", "L1">>

\* A store holding one memory of each permission level and one project of any
\* level, with the bypass setting either way.
GuardInit ==
    /\ \E p \in Range(PERMISSION) :
          projects = (1 :> ProjectRow("a-b", "active", p, "guarded", 0))
    /\ memories = [i \in 1..4 |->
                      MemoryRow(NoId, "note", GuardTitles[i], "c1", "draft", PERMISSION[i], 0)]
    /\ memoryTags = {}
    /\ memoryRelations = {}
    /\ \E skip \in {"false", "true"} :
          settings = [SettingDefaults EXCEPT !.dangerously_skip_memory_permission = skip]
    /\ globalContext = [activeProjectId |-> NoId, activeIdentityId |-> NoId]
    /\ nextProjectId = 2
    /\ nextMemoryId = 5
    /\ clock = 0
    /\ call = NoCall
    /\ asked = 0
    /\ ran = FALSE
    /\ resp = NoResponse
    /\ studioOps = 0
    /\ tasks = <<>>
    /\ nextTaskId = 1
    /\ pages = <<>>
    /\ nextPageId = 1
    /\ legacy = NoLegacy
    /\ boot = Booted

GuardIdArgs == 1..4

GuardNext ==
    \/ \E args \in UpdateArgsFor(GuardIdArgs) : MemoryUpdate(args) /\ UNCHANGED others
    \/ \E id \in GuardIdArgs : MemoryDelete(id) /\ UNCHANGED others
    \/ \E id \in GuardIdArgs : GuardRead(id) /\ UNCHANGED others
    \/ \E args \in ProjectUpdateArgs : ProjectUpdate(args) /\ UNCHANGED others
    \/ \E name \in ProjectNameArgs : ProjectDelete(name) /\ UNCHANGED others
    \/ AskAccept /\ UNCHANGED others
    \/ AskReject /\ UNCHANGED others

GuardSpec == GuardInit /\ [][GuardNext]_vars

-----------------------------------------------------------------------------
(* Database files as initializeDatabase finds them at plugin start *)

\* The v1 columns of a legacy file.
LegacyFile(identity, preferences, contextSummary, projectSummaries) ==
    [present |-> TRUE, identity |-> identity, preferences |-> preferences,
     contextSummary |-> contextSummary, projectSummaries |-> projectSummaries]

\* A file no run of this version has opened: a v1 file holds one project and
\* no settings table, a new file holds nothing.
FileInit(files) ==
    /\ legacy \in files
    /\ projects = IF legacy.present
                  THEN (1 :> ProjectRow("a-b", "active", "guarded", "locked", 0))
                  ELSE <<>>
    /\ nextProjectId = IF legacy.present THEN 2 ELSE 1
    /\ memories = <<>>
    /\ memoryTags = {}
    /\ memoryRelations = {}
    /\ settings = [key \in {} |-> ""]
    /\ globalContext = [activeProjectId |-> NoId, activeIdentityId |-> NoId]
    /\ nextMemoryId = 1
    /\ clock = 0
    /\ call = NoCall
    /\ asked = 0
    /\ ran = FALSE
    /\ resp = NoResponse
    /\ studioOps = 0
    /\ tasks = <<>>
    /\ nextTaskId = 1
    /\ pages = <<>>
    /\ nextPageId = 1
    /\ boot = [status |-> "none", fault |-> "none", runs |-> 0, foreignKeys |-> TRUE]

-----------------------------------------------------------------------------
(* The memory tools and restarts over new and legacy files *)

StoreFiles ==
    {NoLegacy,
     LegacyFile("", "", "gs", <<>>),
     LegacyFile("Me\nx", "{\"memory\":{\"defaultPermission\":\"open\"}}", "gs", (1 :> "ps"))}

StoreInit == FileInit(StoreFiles)

StoreSaveArg(type, project, permission) ==
    [type |-> type, title |-> "T1", content |-> "c1", project |-> project, tags |-> NoArg,
     status |-> NoArg, permission |-> permission]

StoreSaveArgs ==
    {StoreSaveArg("context", NoArg, NoArg), StoreSaveArg("context", "A b", NoArg),
     StoreSaveArg("scratchpad", NoArg, NoArg), StoreSaveArg("scratchpad", NoArg, "read_only"),
     StoreSaveArg("scratchpad", "A b", NoArg)}

\* Ids a caller names: the memories that are not seeded skills.
StoreIdArgs == {id \in DOMAIN memories : memories[id].type # "skill"}

StoreSettings == {<<"default_memory_permission", "read_only">>}

\* The tools exist once initializeDatabase has returned.
Started == boot.status = "ok"

StoreNext ==
    \/ initializeDatabase("none")
    \/ \E args \in StoreSaveArgs : Started /\ MemorySave(args) /\ UNCHANGED others
    \/ \E args \in UpdateArgsFor(StoreIdArgs \cap ContextsOf(NoId)) :
          Started /\ MemoryUpdate(args) /\ UNCHANGED others
    \/ \E id \in StoreIdArgs : Started /\ MemoryDelete(id) /\ UNCHANGED others
    \/ AskAccept /\ UNCHANGED others
    \/ AskReject /\ UNCHANGED others
    \/ \E kv \in StoreSettings :
          Started /\ StudioSetSetting(kv[1], kv[2]) /\ UNCHANGED others

StoreSpec == StoreInit /\ [][StoreNext]_vars

-----------------------------------------------------------------------------
(* The task tool over two projects *)

\* Two projects exist and either, or none, is active; the connection enforces
\* foreign keys or, as SQLite connections do unless told otherwise, does not.
TaskInit ==
    /\ projects = (1 :> ProjectRow("a-b", "active", "guarded", "guarded", 0))
                  @@ (2 :> ProjectRow("c", "active", "guarded", "guarded", 0))
    /\ nextProjectId = 3
    /\ memories = SeedMemories
    /\ memoryTags = SeedMemoryTags
    /\ memoryRelations = {}
    /\ settings = SettingDefaults
    /\ globalContext = [activeProjectId |-> NoId, activeIdentityId |-> NoId]
    /\ nextMemoryId = 3
    /\ clock = 0
    /\ call = NoCall
    /\ asked = 0
    /\ ran = FALSE
    /\ resp = NoResponse
    /\ studioOps = 0
    /\ tasks = <<>>
    /\ nextTaskId = 1
    /\ pages = <<>>
    /\ nextPageId = 1
    /\ legacy = NoLegacy
    /\ boot \in {[Booted EXCEPT !.foreignKeys = fk] : fk \in BOOLEAN}

TaskArg(title, parent_id, project) ==
    [title |-> title, parent_id |-> parent_id, project |-> project, priority |-> NoArg,
     status |-> NoArg]

\* Every stored task and one absent id as the parent, with and without a
\* project name; one call without a title and one naming no project that exists.
TaskCreateArgs ==
    {TaskArg("t", parent, project) : parent \in 0..nextTaskId, project \in {NoArg, "c"}}
    \cup {TaskArg(NoArg, NoId, NoArg), TaskArg("t", NoId, "zz")}

TaskUpdateArgs ==
    {[id |-> id, title |-> NoArg, priority |-> NoArg, status |-> "done"] :
        id \in 1..nextTaskId}

TaskNext ==
    \/ \E args \in TaskCreateArgs : TaskCreate(args)
    \/ \E args \in TaskUpdateArgs : TaskUpdate(args)
    \/ \E id \in 0..nextTaskId : TaskDelete(id)
    \/ \E name \in {NoArg, "A b", "c"} : ProjectLoad(name) /\ UNCHANGED others

TaskSpec == TaskInit /\ [][TaskNext]_vars

-----------------------------------------------------------------------------
(* Plugin starts over new and legacy files, with failing statements *)

BootFiles ==
    {NoLegacy}
    \cup {LegacyFile(identity, preferences, contextSummary, projectSummaries) :
             identity \in {"", "Me\nx", "\nx"},
             preferences \in {"", "{}", "{\"memory\":",
                              "{\"memory\":{\"defaultPermission\":\"open\"}}",
                              "{\"planning\":{\"autoCreateTasks\":true},\"search\":{\"defaultLimit\":5}}"},
             contextSummary \in {"", "gs"},
             projectSummaries \in {<<>>, (1 :> "ps")}}

BootInit == FileInit(BootFiles)

BootNext == \E fault \in Faults : initializeDatabase(fault)

BootSpec == BootInit /\ [][BootNext]_vars

-----------------------------------------------------------------------------
(* Find over three projects *)

FindTitles == <<"tx", "y", "z", "Tx", "xt", "t">>

FindUpdatedAt == <<2, 1, 2, 3, 1, 3>>

\* Three projects whose ids are not in the order of their names; six memories
\* filed anywhere (memory 2, which the query does not match, in c or nowhere),
\* memory 5 locked or not; memory 3 is tagged t; the result cap is the default
\* or 2; project c is active or none is.
FindInit ==
    /\ projects = (1 :> ProjectRow("b", "active", "guarded", "guarded", 0))
                  @@ (2 :> ProjectRow("c", "active", "guarded", "guarded", 0))
                  @@ (3 :> ProjectRow("ab", "active", "guarded", "guarded", 0))
    /\ nextProjectId = 4
    /\ \E owner \in [1..6 -> {NoId, 1, 2, 3}], fifth \in {"open", "locked"} :
          /\ owner[2] \in {NoId, 2}
          /\ memories = [i \in 1..6 |->
                            MemoryRow(owner[i], "note", FindTitles[i], "c", "draft",
                                      IF i = 5 THEN fifth ELSE "guarded", FindUpdatedAt[i])]
    /\ memoryTags = {<<3, "t">>}
    /\ memoryRelations = {}
    /\ \E cap \in {"20", "2"} :
          settings = [SettingDefaults EXCEPT !.search_default_limit = cap]
    /\ \E active \in {NoId, 2} :
          globalContext = [activeProjectId |-> active, activeIdentityId |-> NoId]
    /\ nextMemoryId = 7
    /\ clock = 0
    /\ call = NoCall
    /\ asked = 0
    /\ ran = FALSE
    /\ resp = NoResponse
    /\ studioOps = 0
    /\ tasks = <<>>
    /\ nextTaskId = 1
    /\ pages = <<>>
    /\ nextPageId = 1
    /\ legacy = NoLegacy
    /\ boot = Booted

\* The one search the callers make.
FindQuery == [query |-> "T", type |-> NoArg]

FindNext == MemoryFind(FindQuery) /\ UNCHANGED others

FindSpec == FindInit /\ [][FindNext]_vars

-----------------------------------------------------------------------------
(* The canvas from empty to full *)

\* The viewer server has just started: the canvas is empty.
CanvasInit ==
    /\ pages = <<>>
    /\ nextPageId = 1
    /\ projects = <<>>
    /\ memories = SeedMemories
    /\ memoryTags = SeedMemoryTags
    /\ memoryRelations = {}
    /\ settings = SettingDefaults
    /\ globalContext = [activeProjectId |-> NoId, activeIdentityId |-> NoId]
    /\ nextProjectId = 1
    /\ nextMemoryId = 3
    /\ clock = 0
    /\ call = NoCall
    /\ asked = 0
    /\ ran = FALSE
    /\ resp = NoResponse
    /\ studioOps = 0
    /\ tasks = <<>>
    /\ nextTaskId = 1
    /\ legacy = NoLegacy
    /\ boot = Booted

\* Ids a caller names: the oldest page, the one after it, the newest, and an
\* id no page has.
PageIdArgs ==
    {pages[i] : i \in {1, 2, Len(pages)} \cap DOMAIN pages} \cup {nextPageId}

CanvasNext ==
    \/ addPage
    \/ \E id \in PageIdArgs : deletePage(id)
    \/ clearPages

CanvasSpec == CanvasInit /\ [][CanvasNext]_vars

-----------------------------------------------------------------------------
(* Loading and deleting projects, with scoped calls in between *)

\* Two projects; a-b owns a memory and a task.
ScopeInit ==
    /\ projects = (1 :> ProjectRow("a-b", "active", "guarded", "guarded", 0))
                  @@ (2 :> ProjectRow("c", "active", "guarded", "guarded", 0))
    /\ nextProjectId = 3
    /\ memories = SeedMemories
                  @@ (3 :> MemoryRow(1, "note", "n", "c1", "draft", "open", 0))
    /\ memoryTags = SeedMemoryTags
    /\ memoryRelations = {}
    /\ settings = SettingDefaults
    /\ globalContext = [activeProjectId |-> NoId, activeIdentityId |-> NoId]
    /\ nextMemoryId = 4
    /\ clock = 0
    /\ call = NoCall
    /\ asked = 0
    /\ ran = FALSE
    /\ resp = NoResponse
    /\ studioOps = 0
    /\ tasks = (1 :> TaskRow(1, NoId, "t", "medium", "todo"))
    /\ nextTaskId = 2
    /\ pages = <<>>
    /\ nextPageId = 1
    /\ legacy = NoLegacy
    /\ boot = Booted

\* A save and a task that name no project: both land in the active scope.
ScopeSaveArg == StoreSaveArg("note", NoArg, NoArg)

ScopeTaskArg == TaskArg("t", NoId, NoArg)

\* An update that sets a-b's status to active, and a create under its name.
ScopeProjectArg ==
    [name |-> "A b", status |-> "active", permission |-> NoArg,
     default_memory_permission |-> NoArg]

\* This session loads a-b, a name that resolves to nothing, or global mode;
\* only the other session points at c.
ScopeNext ==
    \/ \E name \in {NoArg, "A b", "zz"} : ProjectLoad(name) /\ UNCHANGED others
    \/ ProjectDelete("A b") /\ UNCHANGED others
    \/ ProjectUpdate(ScopeProjectArg) /\ UNCHANGED others
    \/ ProjectCreate(ScopeProjectArg) /\ UNCHANGED others
    \/ AskAccept /\ UNCHANGED others
    \/ AskReject /\ UNCHANGED others
    \/ \E id \in {NoId, 2} : OtherSessionSetActiveProject(id) /\ UNCHANGED others
    \/ MemoryFind([query |-> NoArg, type |-> NoArg]) /\ UNCHANGED others
    \/ MemorySave(ScopeSaveArg) /\ UNCHANGED others
    \/ TaskCreate(ScopeTaskArg)
    \/ Hud /\ UNCHANGED others

ScopeSpec == ScopeInit /\ [][ScopeNext]_vars

-----------------------------------------------------------------------------
(* Saves and guarded mutations while permissions and settings are edited *)

\* One project whose default for new memories is read_only, and one guarded
\* note of no project.
PermInit ==
    /\ projects = (1 :> ProjectRow("a-b", "active", "guarded", "read_only", 0))
    /\ nextProjectId = 2
    /\ memories = SeedMemories
                  @@ (3 :> MemoryRow(NoId, "note", "n", "c1", "draft", "guarded", 0))
    /\ memoryTags = SeedMemoryTags
    /\ memoryRelations = {}
    /\ settings = SettingDefaults
    /\ globalContext = [activeProjectId |-> NoId, activeIdentityId |-> NoId]
    /\ nextMemoryId = 4
    /\ clock = 0
    /\ call = NoCall
    /\ asked = 0
    /\ ran = FALSE
    /\ resp = NoResponse
    /\ studioOps = 0
    /\ tasks = <<>>
    /\ nextTaskId = 1
    /\ pages = <<>>
    /\ nextPageId = 1
    /\ legacy = NoLegacy
    /\ boot = Booted

\* The title tells the saves apart: "Tp" carries the explicit permission
\* locked, "T1" carries none.
PermSaveArg(type, project, permission) ==
    [type |-> type, title |-> IF permission = NoArg THEN "T1" ELSE "Tp", content |-> "c1",
     project |-> project, tags |-> NoArg, status |-> NoArg, permission |-> permission]

PermSaveArgs ==
    {PermSaveArg(type, project, permission) :
        type \in {"note", "context"}, project \in {NoArg, "A b"},
        permission \in {NoArg, "locked"}}

\* Values of default_memory_permission: a level, and text that is no level.
PermSettings == {"open", "bogus"}

PermNext ==
    \/ \E args \in PermSaveArgs : MemorySave(args) /\ UNCHANGED others
    \/ MemoryUpdate([id |-> 3, title |-> "T2", content |-> NoArg, append |-> FALSE,
                     status |-> NoArg, tags |-> NoArg]) /\ UNCHANGED others
    \/ MemoryDelete(3) /\ UNCHANGED others
    \/ AskAccept /\ UNCHANGED others
    \/ AskReject /\ UNCHANGED others
    \/ \E value \in PermSettings :
          StudioSetSetting("default_memory_permission", value) /\ UNCHANGED others
    \/ \E permission \in {"read_only", "locked"} :
          StudioSetPermission(3, permission) /\ UNCHANGED others

PermSpec == PermInit /\ [][PermNext]_vars

-----------------------------------------------------------------------------
(* Plugin starts that stop inside the migration and are repeated *)

CrashNext ==
    \/ initializeDatabase("none")
    \/ \E point \in InterruptionPoints : initializeDatabaseInterrupted(point)

CrashSpec == BootInit /\ [][CrashNext]_vars

-----------------------------------------------------------------------------
(* Visibility of locked memories (Spec) *)

\* The lines of the last response that show stored text of a memory still in
\* the store.
ShownMemoryLines ==
    {i \in 1..Len(resp.lines) :
        /\ resp.lines[i].entity = "memory"
        /\ resp.lines[i].stored
        /\ resp.lines[i].id \in DOMAIN memories}

\* The lines by which a read by id answers for the memory asked for.
DirectReadLines ==
    {i \in 1..Len(resp.lines) :
        /\ resp.tool \in {"minni_equip", "minni_get"}
        /\ resp.lines[i].tag \in {"not found", "locked", "beacon", "memory"}
        /\ resp.lines[i].id \in DOMAIN memories}

\* C1: no locked memory appears in a result of find, whatever the query, the
\* type filter and the active project: not in the single list, not in the
\* in-project section, not in the fallback section.
C1_FindNeverReturnsLocked ==
    resp.tool = "minni_memory.find" =>
        \A i \in 1..Len(resp.lines) :
            (resp.lines[i].entity = "memory" /\ resp.lines[i].id \in DOMAIN memories)
                => memories[resp.lines[i].id].permission # "locked"

\* A find with a project active answered with rows while the store holds a
\* locked memory that the query would otherwise match.
C1_Witness ==
    /\ resp.tool = "minni_memory.find"
    /\ getActiveProject # NoId
    /\ \E i \in 1..Len(resp.lines) : resp.lines[i].tag = "nether"
    /\ \E id \in DOMAIN memories :
          memories[id].permission = "locked" /\ memories[id].projectId = getActiveProject

\* C2: no tool response contains the stored title or content of a locked
\* memory: not find, not equip (by id, by identity name, the "uses" line), not
\* the HUD identity line or injection, not project load.
C2_NoResponseShowsLocked ==
    \A i \in ShownMemoryLines : memories[resp.lines[i].id].permission # "locked"

\* C3 as stated: a read by id of a locked memory answers with a denial that is
\* not the answer for an absent id, and with no content.
C3_LockedReadIsDenied ==
    \A i \in DirectReadLines :
        memories[resp.lines[i].id].permission = "locked"
            => resp.lines[i].tag = "locked" /\ resp.lines[i].content = ""

\* C3 amended: a read by id of a locked memory never returns its title or
\* content; minni_equip answers as it does for an absent id, minni_get with a
\* "locked" message.
C3_LockedReadHidesContent ==
    \A i \in DirectReadLines :
        memories[resp.lines[i].id].permission = "locked"
            => /\ resp.lines[i].title = ""
               /\ resp.lines[i].content = ""
               /\ resp.tool = "minni_equip" => resp.lines[i].tag = "not found"
               /\ resp.tool = "minni_get" => resp.lines[i].tag = "locked"

\* minni_equip was asked for a locked memory by id.
C3_Witness ==
    /\ resp.tool = "minni_equip"
    /\ \E i \in DirectReadLines :
          /\ memories[resp.lines[i].id].permission = "locked"
          /\ resp.lines[i].tag = "not found"

-----------------------------------------------------------------------------
(* Mutations and the Permission Guard (Spec) *)

\* C4: while the bypass setting is not "true", no step changes or removes a
\* read_only memory or project, nor the tags of a read_only memory.
C4_ReadOnlyUnchanged ==
    [][GetSetting("dangerously_skip_memory_permission") # "true" =>
          /\ \A id \in DOMAIN memories :
                memories[id].permission = "read_only" =>
                    /\ id \in DOMAIN memories'
                    /\ memories'[id] = memories[id]
                    /\ {x \in memoryTags' : x[1] = id} = {x \in memoryTags : x[1] = id}
          /\ \A id \in DOMAIN projects :
                projects[id].permission = "read_only" =>
                    id \in DOMAIN projects' /\ projects'[id] = projects[id]]_vars

\* C5: when the confirmation of a guarded mutation is refused, the executor
\* has not run, the store is as it was, and the call answers CANCELLED; so
\* after any number of refused attempts.
C5_RejectLeavesStorage ==
    [][(call.active /\ ~call'.active) =>
          IF resp' = Cancelled(call.tool, call.entity)
          THEN /\ ~ran'
               /\ store' = store
               /\ nextMemoryId' = nextMemoryId
               /\ nextProjectId' = nextProjectId
          ELSE ran' /\ resp' = ExecResponse(call.exec)]_vars

\* A guarded mutation was refused.
C5_Witness ==
    /\ call.entered
    /\ ~call.active
    /\ asked = 1
    /\ ~ran
    /\ resp.kind = "CANCELLED"

\* C8: a step that changes or removes an existing memory or project row is the
\* executor of a guardedAction call made for that row with its stored
\* permission.
C8_WritesOnlyInsideGuard ==
    [][/\ \A id \in DOMAIN memories :
             (id \notin DOMAIN memories' \/ memories'[id] # memories[id]) =>
                 /\ ran'
                 /\ call'.entered
                 /\ call'.entity.type = "memory"
                 /\ call'.entity.id = id
                 /\ call'.entity.permission = memories[id].permission
       /\ \A id \in DOMAIN projects :
             (id \notin DOMAIN projects' \/ projects'[id] # projects[id]) =>
                 /\ ran'
                 /\ call'.entered
                 /\ call'.entity.type = "project"
                 /\ call'.entity.id = id
                 /\ call'.entity.permission = projects[id].permission]_vars

-----------------------------------------------------------------------------
(* The Permission Guard (GuardSpec) *)

\* C6: while the bypass setting is not "true", guardedAction on a locked entity
\* never runs the executor, for read, update and delete alike, and its error
\* carries neither the entity's name nor its content.
C6_LockedNeverRuns ==
    (call.entered /\ call.skipAll # "true" /\ call.entity.permission = "locked") =>
        /\ ~ran
        /\ ~call.active
        /\ resp.kind = "BLOCKED"
        /\ \A i \in 1..Len(resp.lines) :
              resp.lines[i].title = "" /\ resp.lines[i].content = ""

\* A read of a locked memory went through guardedAction without bypass.
C6_Witness ==
    /\ call.entered
    /\ call.skipAll # "true"
    /\ call.entity.permission = "locked"
    /\ call.action = "read"
    /\ resp.kind = "BLOCKED"

\* C7: guardedAction asks for confirmation exactly when the entity is guarded,
\* the action is update or delete and the bypass setting is not "true"; it asks
\* once, and the executor has not run while the answer is awaited.
C7_AskOnlyGuardedMutation ==
    call.entered =>
        /\ asked \in {0, 1}
        /\ asked = 1 <=> /\ call.entity.permission = "guarded"
                         /\ call.action \in {"update", "delete"}
                         /\ call.skipAll # "true"
        /\ call.active => asked = 1 /\ ~ran
        /\ (ran /\ call.entity.permission = "guarded" /\ call.action # "read"
                /\ call.skipAll # "true") => asked = 1

\* A guarded update was confirmed and ran.
C7_Witness ==
    /\ call.entered
    /\ call.entity.permission = "guarded"
    /\ call.action = "update"
    /\ asked = 1
    /\ ran

\* C9: when dangerously_skip_memory_permission is "true", guardedAction runs
\* the executor for every permission level and action without asking; a locked
\* memory that is deleted is gone from the store.
C9_BypassRunsEverything ==
    (call.entered /\ call.skipAll = "true") =>
        /\ ran
        /\ asked = 0
        /\ ~call.active
        /\ resp = ExecResponse(call.exec)
        /\ call.exec.kind = "memory.delete" => call.entity.id \notin DOMAIN memories

\* Under bypass a locked memory was deleted.
C9_Witness ==
    /\ call.entered
    /\ call.skipAll = "true"
    /\ call.entity.permission = "locked"
    /\ call.exec.kind = "memory.delete"
    /\ call.entity.id \notin DOMAIN memories
    /\ ran

\* C10: an execution under the bypass setting is observable as a bypass: what
\* guardedAction returns differs from what the same operation returns when the
\* permission matrix lets it run.
C10_BypassObservable ==
    (call.entered /\ call.skipAll = "true" /\ ran) => resp # ExecResponse(call.exec)

-----------------------------------------------------------------------------
(* One context memory per scope (StoreSpec) *)

\* C11: after every step of save, update, delete and initializeDatabase each
\* scope (a project, or the global scope) holds at most one context memory; a
\* scope that holds one never gets one with another id, and a save answered
\* "Context updated" keeps the set of memory ids and the id counter.
C11_OneContextPerScope ==
    [][/\ \A proj \in {NoId} \cup DOMAIN projects' :
             Cardinality({id \in DOMAIN memories' :
                             /\ memories'[id].type = "context"
                             /\ memories'[id].projectId = proj}) <= 1
       /\ \A id \in DOMAIN memories' \ DOMAIN memories :
             memories'[id].type = "context" =>
                ~\E old \in DOMAIN memories :
                     /\ memories[old].type = "context"
                     /\ memories[old].projectId = memories'[id].projectId
       /\ (resp' # resp /\ resp'.kind = "Context updated") =>
             /\ DOMAIN memories' = DOMAIN memories
             /\ nextMemoryId' = nextMemoryId
             /\ \E id \in DOMAIN memories :
                   /\ memories[id].type = "context"
                   /\ resp'.lines[1].id = id
                   /\ memories'[id].content = "c1"]_vars

\* A context save has replaced the text of the context memory the migration
\* made from the v1 summary.
C11_Witness ==
    /\ legacy.present
    /\ resp.kind = "Context updated"
    /\ \E id \in DOMAIN memories :
          /\ memories[id].type = "context"
          /\ memories[id].projectId = NoId
          /\ memories[id].content = "c1"
          /\ resp.lines[1].id = id

-----------------------------------------------------------------------------
(* Scratchpads (StoreSpec) *)

\* C12: every scratchpad memory a step creates is stored with permission open,
\* whatever permission the caller passed, whatever the project's default memory
\* permission and whatever the default_memory_permission setting.
C12_ScratchpadAlwaysOpen ==
    [][\A id \in DOMAIN memories' \ DOMAIN memories :
          memories'[id].type = "scratchpad" => memories'[id].permission = "open"]_vars

\* A scratchpad was just saved into the project whose default memory permission
\* is locked, while the setting says read_only.
C12_Witness ==
    /\ resp.kind = "Saved"
    /\ GetSetting("default_memory_permission") = "read_only"
    /\ \E id \in DOMAIN memories :
          /\ resp.lines[1].id = id
          /\ memories[id].type = "scratchpad"
          /\ memories[id].projectId \in DOMAIN projects
          /\ projects[memories[id].projectId].defaultMemoryPermission = "locked"
          /\ memories[id].permission = "open"

-----------------------------------------------------------------------------
(* The task hierarchy (TaskSpec) *)

\* C13: a task created under an existing parent gets the parent's project
\* (none when the parent has none), whatever project name the caller passed
\* and whatever project is active.
C13_SubtaskInheritsProject ==
    [][\A id \in DOMAIN tasks' \ DOMAIN tasks :
          tasks'[id].parentId # NoId =>
             /\ tasks'[id].parentId \in DOMAIN tasks
             /\ tasks'[id].projectId = tasks[tasks'[id].parentId].projectId]_vars

\* A subtask was just created under a parent of project a-b while project c
\* was active: it is in a-b.
C13_Witness ==
    /\ resp.kind = "Task created"
    /\ globalContext.activeProjectId = 2
    /\ \E id \in DOMAIN tasks :
          /\ resp.lines[1].id = id
          /\ tasks[id].parentId \in DOMAIN tasks
          /\ tasks[tasks[id].parentId].projectId = 1
          /\ tasks[id].projectId = 1

\* C14: after a task is deleted, the task and all the tasks below it, at any
\* depth, are absent from the table.
C14_DeleteRemovesDescendants ==
    [][(resp'.tool = "minni_task.delete" /\ resp'.kind = "Deleted") =>
          \A t \in {resp'.lines[1].id} \cup Descendants(tasks, resp'.lines[1].id) :
             t \notin DOMAIN tasks']_vars

-----------------------------------------------------------------------------
(* Restarts (StoreSpec, BootSpec) *)

\* C15: on every database file, new, legacy or in use, a second run of
\* initializeDatabase straight after a first leaves every row as the first
\* run left it.
C15_SecondRunChangesNothing ==
    LET once == Run(Database, legacy, TRUE, clock)
    IN  Run(once, legacy, TRUE, clock) = once

\* A legacy file has been started twice and holds the migrated identity,
\* the migrated context and the seeds.
C15_Witness ==
    /\ boot.runs = 2
    /\ boot.status = "ok"
    /\ legacy.identity # ""
    /\ globalContext.activeIdentityId \in DOMAIN memories
    /\ ExistingContext(Database, 1) # {}
    /\ Database = Run(Database, legacy, TRUE, clock)

C17_RerunKeepsUserData ==
    [][(boot'.runs = boot.runs + 1 /\ boot.runs >= 1 /\ boot.status = "ok")
       => /\ \A key \in DOMAIN settings : settings'[key] = settings[key]
          /\ \A id \in DOMAIN memories' \ DOMAIN memories :
                memories'[id].type \notin {"identity", "context"}]_vars

\* C18: a run of initializeDatabase in which a statement failed for a reason
\* other than a missing v1 column, or in which the v1 preferences could not
\* be parsed, does not return normally.
C18_FailuresPropagate ==
    [][(/\ boot'.runs = boot.runs + 1
        /\ \/ boot'.fault # "none"
           \/ legacy.present /\ legacy.preferences # ""
                /\ ~JsonParse(legacy.preferences).ok)
       => boot'.status = "failed"]_vars

-----------------------------------------------------------------------------
(* Scoped search (FindSpec) *)

\* The memories the lines of one section of the latest response are about.
FindShown(section) ==
    {resp.lines[i].id : i \in {j \in 1..Len(resp.lines) : resp.lines[j].tag = section}}

FindLineCount(section) ==
    Cardinality({j \in 1..Len(resp.lines) : resp.lines[j].tag = section})

\* The memories that are not locked and that the query matches by title, by
\* content or by tag.
FindExpected ==
    {id \in DOMAIN memories :
        /\ memories[id].permission # "locked"
        /\ \/ Contains(ToLower(memories[id].title), "t")
           \/ Contains(ToLower(memories[id].content), "t")
           \/ <<id, "t">> \in memoryTags}

\* The latest response is a find made while a project was active.
FindWithActive ==
    resp.tool = "minni_memory.find" /\ globalContext.activeProjectId # NoId

\* C19: with a project active, the in-project section and the fallback section
\* of a find share no memory and repeat none; the first holds only matching
\* memories of the active project that are not locked, the second only
\* matching memories outside it that are not locked; when neither scope has
\* more matches than the cap, every such memory is in one of the two.
C19_TwoDisjointScopes ==
    FindWithActive =>
       LET active == globalContext.activeProjectId
           inside == {id \in FindExpected : memories[id].projectId = active}
           outside == {id \in FindExpected : memories[id].projectId # active}
           cap == IF settings.search_default_limit = "2" THEN 2 ELSE 20
       IN  /\ FindShown("in_project") \cap FindShown("nether") = {}
           /\ FindLineCount("in_project") = Cardinality(FindShown("in_project"))
           /\ FindLineCount("nether") = Cardinality(FindShown("nether"))
           /\ FindShown("in_project") \subseteq inside
           /\ FindShown("nether") \subseteq outside
           /\ (Cardinality(inside) <= cap /\ Cardinality(outside) <= cap) =>
                 /\ FindShown("in_project") = inside
                 /\ FindShown("nether") = outside

\* With c active, a find showed one memory of c and, under the heading Global,
\* one memory of no project, while a locked memory with a matching title and
\* a memory the query does not match stayed out.
C19_Witness ==
    /\ FindWithActive
    /\ Cardinality(FindShown("in_project")) = 1
    /\ \E i \in 1..(Len(resp.lines) - 1) :
          /\ resp.lines[i].tag = "nether_group"
          /\ resp.lines[i].title = "Global"
          /\ resp.lines[i + 1].tag = "nether"
          /\ memories[resp.lines[i + 1].id].projectId = NoId
    /\ memories[5].permission = "locked"
    /\ memories[5].projectId = 2
    /\ memories[2].projectId = 2

\* The place of a group heading in the alphabet of this store, Global last.
FindGroupRank(key) ==
    CASE key = "ab" -> 1 [] key = "b" -> 2 [] key = "c" -> 3 [] key = "Global" -> 4

\* C20: in a find made with a project active, the in-project section comes
\* before the fallback section; the fallback groups of named projects come in
\* alphabetical order and the group Global last; every fallback row stands
\* under the heading of its own project; inside the in-project section and
\* inside every group no row is followed by a more recently updated one.
C20_SectionAndGroupOrder ==
    FindWithActive =>
       LET L == resp.lines
           n == Len(resp.lines)
           Heading(i) == CHOOSE h \in 1..i :
                            /\ L[h].tag = "nether_group"
                            /\ \A k \in (h + 1)..i : L[k].tag # "nether_group"
           Owner(id) == IF memories[id].projectId = NoId THEN "Global"
                        ELSE projects[memories[id].projectId].name
       IN  /\ \A i, j \in 1..n :
                 (L[i].tag \in {"in_project_header", "in_project"}
                    /\ L[j].tag \in {"nether_group", "nether"}) => i < j
           /\ \A i, j \in 1..n :
                 (i < j /\ L[i].tag = "nether_group" /\ L[j].tag = "nether_group") =>
                    FindGroupRank(L[i].title) < FindGroupRank(L[j].title)
           /\ \A i \in 1..n :
                 L[i].tag = "nether" =>
                    /\ \E h \in 1..i : L[h].tag = "nether_group"
                    /\ L[Heading(i)].title = Owner(L[i].id)
           /\ \A i, j \in 1..n :
                 (i < j /\ L[i].tag = "in_project" /\ L[j].tag = "in_project") =>
                    memories[L[i].id].updatedAt >= memories[L[j].id].updatedAt
           /\ \A i, j \in 1..n :
                 (i < j /\ L[i].tag = "nether" /\ L[j].tag = "nether"
                    /\ Owner(L[i].id) = Owner(L[j].id)) =>
                    memories[L[i].id].updatedAt >= memories[L[j].id].updatedAt

\* A find with c active showed a memory of c, then the groups ab, b and Global
\* in that order, the group ab holding two memories updated at different times.
C20_Witness ==
    /\ FindWithActive
    /\ FindShown("in_project") # {}
    /\ \E i, j, k \in 1..Len(resp.lines) :
          /\ i < j /\ j < k
          /\ resp.lines[i].tag = "nether_group" /\ resp.lines[i].title = "ab"
          /\ resp.lines[j].tag = "nether_group" /\ resp.lines[j].title = "b"
          /\ resp.lines[k].tag = "nether_group" /\ resp.lines[k].title = "Global"
          /\ j = i + 3
          /\ memories[resp.lines[i + 1].id].updatedAt > memories[resp.lines[i + 2].id].updatedAt

-----------------------------------------------------------------------------
(* The canvas (CanvasSpec) *)

\* C30: after every addPage, deletePage and clearPages the canvas holds at
\* most maxCanvasPages pages; a push onto a full canvas drops exactly the
\* oldest page, any other push drops none, and in both cases the pages kept
\* stay in their order with the new page last.
C30_CanvasBounded ==
    [][/\ Len(pages') <= 20
       /\ nextPageId' # nextPageId =>
             /\ pages'[Len(pages')] = nextPageId
             /\ SubSeq(pages', 1, Len(pages') - 1) =
                   (IF Len(pages) = 20 THEN SubSeq(pages, 2, 20) ELSE pages)]_vars

\* A full canvas that has lost its oldest page to a push and shows the pushed
\* page last.
C30_Witness ==
    /\ Len(pages) = 20
    /\ nextPageId = 22
    /\ pages = [i \in 1..20 |-> i + 1]

-----------------------------------------------------------------------------
(* Loading a project (ScopeSpec) *)

\* A step of minni_project.load.
LoadStep ==
    /\ resp'.tool = "minni_project.load"
    /\ studioOps' = studioOps
    /\ ~call.active

\* C21: a load whose name resolves to no project, or to a soft-deleted one,
\* answers with an error and leaves the active-project pointer as it was;
\* a load of any other project stores that project in the pointer.
C21_LoadRejectsMissingAndDeleted ==
    [][LoadStep =>
          /\ resp'.kind \in {"not found", "has been deleted", "loaded", "Global Mode"}
          /\ resp'.kind = "not found" =>
                /\ ProjectByName(resp'.lines[1].title) = NoId
                /\ globalContext' = globalContext
          /\ resp'.kind = "has been deleted" =>
                /\ projects[resp'.lines[1].id].status = "deleted"
                /\ globalContext' = globalContext
          /\ resp'.kind = "loaded" =>
                /\ projects[resp'.lines[1].id].status # "deleted"
                /\ globalContext'.activeProjectId = resp'.lines[1].id]_vars

\* A load of the soft-deleted a-b was refused while c was the active project,
\* and c still is.
C21_Witness ==
    /\ resp.tool = "minni_project.load"
    /\ resp.kind = "has been deleted"
    /\ projects[1].status = "deleted"
    /\ globalContext.activeProjectId = 2

-----------------------------------------------------------------------------
(* The pointer row is read at every call (ScopeSpec) *)

\* The project the pointer row designates in storage.
StoredScope ==
    IF globalContext.activeProjectId \in DOMAIN projects
    THEN globalContext.activeProjectId
    ELSE NoId

\* A step of this session that leaves the pointer row alone.
ScopedStep == globalContext' = globalContext /\ studioOps' = studioOps

-----------------------------------------------------------------------------
(* Deleting a project (ScopeSpec) *)

\* C23: no step of a tool removes a project row, and the step in which a
\* project delete is carried out changes nothing but that project's status,
\* which becomes "deleted", and its update time: every other column and row,
\* the project's memories and its tasks stay as they were.
C23_ProjectDeleteIsSoft ==
    [][/\ DOMAIN projects \subseteq DOMAIN projects'
       /\ (resp'.tool = "minni_project.delete" /\ ran' /\ clock' # clock) =>
             LET id == resp'.lines[1].id
             IN  /\ resp'.kind = "Project soft-deleted"
                 /\ id \in DOMAIN projects
                 /\ \A p \in DOMAIN projects \ {id} : projects'[p] = projects[p]
                 /\ projects'[id] = [projects[id] EXCEPT !.status = "deleted",
                                                         !.updatedAt = clock']
                 /\ memories' = memories
                 /\ memoryTags' = memoryTags
                 /\ tasks' = tasks
                 /\ globalContext' = globalContext]_vars

\* a-b was deleted after the user confirmed; its row, its memory and its task
\* are still stored.
C23_Witness ==
    /\ resp.tool = "minni_project.delete"
    /\ resp.kind = "Project soft-deleted"
    /\ asked = 1
    /\ projects[1].status = "deleted"
    /\ 3 \in DOMAIN memories
    /\ memories[3].projectId = 1
    /\ tasks[1].projectId = 1

-----------------------------------------------------------------------------
(* The status "deleted" (ScopeSpec) *)

\* C24: a project whose status is "deleted" keeps that status through every
\* step of the tools: create, update, delete and load leave it as it is.
C24_DeletedIsTerminal ==
    [][\A id \in DOMAIN projects :
          projects[id].status = "deleted" =>
             id \in DOMAIN projects' /\ projects'[id].status = "deleted"]_vars

-----------------------------------------------------------------------------
(* The active project is not a deleted one (ScopeSpec) *)

\* C27: as long as only this session's tools have written the pointer row,
\* the active project is either none or a project whose status is not
\* "deleted", so that no later find, save, task or HUD is scoped to a
\* soft-deleted project.
C27_ActiveProjectNotDeleted ==
    studioOps = 0 =>
       \/ getActiveProject = NoId
       \/ projects[getActiveProject].status # "deleted"

-----------------------------------------------------------------------------
(* The permission of a stored memory (PermSpec) *)

\* C25: no step of a tool changes the permission of a memory that is already
\* stored: a save that upserts a context memory, an update and a delete leave
\* the permission of every memory that exists before and after the step as
\* it was.
C25_ToolsKeepPermission ==
    [][studioOps' = studioOps =>
          \A id \in DOMAIN memories \cap DOMAIN memories' :
             memories'[id].permission = memories[id].permission]_vars

\* A save of type context that carried the permission locked rewrote the
\* stored context memory of its scope, which is guarded as before.
C25_Witness ==
    /\ resp.tool = "minni_memory.save"
    /\ resp.kind = "Context updated"
    /\ resp.lines[1].title = "Tp"
    /\ memories[resp.lines[1].id].title = "Tp"
    /\ memories[resp.lines[1].id].permission = "guarded"

-----------------------------------------------------------------------------
(* The permission of a new memory (PermSpec) *)

\* C26: a memory that a save inserts, and that is no scratchpad, is stored
\* with the permission the save names when it names one; otherwise with the
\* default of the project the row belongs to when it belongs to one;
\* otherwise with the setting default_memory_permission when that is one of
\* the four levels; otherwise with guarded.
C26_PermissionCascade ==
    [][\A id \in DOMAIN memories' \ DOMAIN memories :
          LET row == memories'[id]
              explicit == IF row.title = "Tp" THEN "locked" ELSE NoArg
              setting == settings.default_memory_permission
          IN  row.type # "scratchpad" =>
                 row.permission =
                    IF explicit # NoArg THEN explicit
                    ELSE IF row.projectId # NoId
                    THEN projects[row.projectId].defaultMemoryPermission
                    ELSE IF setting \in {"open", "guarded", "read_only", "locked"}
                    THEN setting
                    ELSE "guarded"]_vars

\* With the setting at open, a note saved without project and permission is
\* open, and one saved into a-b without permission is read_only.
C26_Witness ==
    /\ settings.default_memory_permission = "open"
    /\ \E a, b \in DOMAIN memories :
          /\ memories[a].type = "note" /\ memories[a].title = "T1"
          /\ memories[a].projectId = NoId /\ memories[a].permission = "open"
          /\ memories[b].type = "note" /\ memories[b].title = "T1"
          /\ memories[b].projectId = 1 /\ memories[b].permission = "read_only"

-----------------------------------------------------------------------------
(* A permission raised during context.ask (PermSpec) *)

\* C28: a guarded mutation that waits for the user's confirmation is not
\* applied when, at the moment the confirmation is resolved, the memory's
\* stored permission is read_only or locked.
C28_DecisionHoldsAtWrite ==
    [][(/\ call.active
        /\ studioOps' = studioOps
        /\ call.entity.type = "memory"
        /\ call.entity.id \in DOMAIN memories
        /\ memories[call.entity.id].permission \in {"read_only", "locked"})
       => memories' = memories /\ memoryTags' = memoryTags]_vars

-----------------------------------------------------------------------------
(* An interrupted migration, repeated (CrashSpec) *)

\* C29: once a run of initializeDatabase over a v1 file with an identity text
\* has completed, whether or not an earlier run stopped between two writes of
\* the migration, the store holds exactly one identity memory, its content is
\* the v1 identity text, and the identity pointer references it.
C29_InterruptedRunRepeats ==
    (boot.status = "ok" /\ legacy.present /\ legacy.identity # "") =>
       /\ Cardinality({id \in DOMAIN memories : memories[id].type = "identity"}) = 1
       /\ \A id \in DOMAIN memories :
             memories[id].type = "identity" =>
                /\ memories[id].content = legacy.identity
                /\ globalContext.activeIdentityId = id

====
